---------------------------- MODULE Spec2Model ----------------------------
(***************************************************************************)
(* Model of the MetaApi websocket client (metaApiWebsocket.client):        *)
(*   - the request dispatcher (_rpcRequest / _makeRequest / _convertError, *)
(*     unsubscribe, close), specification SpecRpc;                         *)
(*   - the synchronization packet pipeline (packet orderer, queuePacket,   *)
(*     queueEvent, _callAccountEvents, onOutOfOrderPacket), specification  *)
(*     SpecEvents.                                                         *)
(* Time is discrete; a JavaScript timer may fire at or after its deadline,  *)
(* never before.                                                           *)
(***************************************************************************)
EXTENDS Integers, Sequences, FiniteSets, TLC

VARIABLES
  socketInstancesByAccounts,  \* this._socketInstancesByAccounts
  calls,                      \* one record per _rpcRequest invocation
  closed                      \* close() has run

rpcVars == <<socketInstancesByAccounts, calls, closed>>

VARIABLES
  sequentialEventProcessing,  \* this._sequentialEventProcessing
  eventQueues,                \* this._eventQueues[accountId]: absent, or the events
  active,                     \* handlers started, with the number of listener
                              \* promises each still awaits
  invoked,                    \* the events listeners were invoked for, in order
  orderer,                    \* the packet orderer's state for the (account, instance)
  arrived,                    \* what has arrived so far (reordered: some packet
                              \* arrived after one with a higher number)
  outOfOrder,                 \* the onOutOfOrderPacket notifications, in order
  subscribes                  \* the subscriptionManager.subscribe calls, in order

evVars == <<sequentialEventProcessing, eventQueues, active, invoked, orderer, arrived,
            outOfOrder, subscribes>>

VARIABLES
  synchronizationIds,           \* throttler._synchronizationIds: the occupied slots,
                                \* each with the time left before it expires
  accountsBySynchronizationIds, \* the synchronization ids the throttler knows
  synchronizationQueue,         \* the requests waiting for a slot, oldest first
  sentSynchronizations,         \* the ids of the synchronize requests handed to _rpcRequest
  scheduled,                    \* the synchronization ids synchronize() was called with
  reclaimed,                    \* the synchronization ids whose slot expired
  otherSynchronizing,           \* accounts synchronizing on the other socket instances
  lastDeal                      \* history: the synchronization id of the latest
                                \* 'dealSynchronizationFinished' packet processed

thVars == <<synchronizationIds, accountsBySynchronizationIds, synchronizationQueue,
            sentSynchronizations, scheduled, reclaimed, otherSynchronizing, lastDeal>>

VARIABLES
  connectedHosts,       \* the hosts h with this._connectedHosts[account:instance:h] set
  statusTimers,         \* this._statusTimers[account:instance:h]: whether an entry
                        \* exists, and the time left while the timer is armed
  streamQueue,          \* the account's event queue; its head is being handled
  headPhase,            \* what the handler at the head of the queue awaits
  immediateHandlers,    \* handlers of packets processed outside the queue that
                        \* still await something
  subscribing,          \* subscriptionManager.isAccountSubscribing(account, instance)
  disconnectedRetryMode,\* subscriptionManager.isDisconnectedRetryMode(account, instance)
  notes,                \* the notifications and calls made in the latest step
  accountCancelled      \* unsubscribe has cancelled the account's subscription

stVars == <<connectedHosts, statusTimers, streamQueue, headPhase, immediateHandlers,
            subscribing, disconnectedRetryMode, notes, accountCancelled>>

VARIABLES
  socketInstances,          \* this._socketInstances: the ids of the listed instances
  instances,                \* every instance object connect() has created
  accountInstances,         \* this._socketInstancesByAccounts, per account of ConnAccounts
  synchronizationListeners, \* the accounts with an entry in this._synchronizationListeners
  reconnectListeners,       \* the accounts with an entry in this._reconnectListeners
  outcomes,                 \* per account, what became of its latest request and where it was registered
  closeCalled               \* close() has been called

cnVars == <<socketInstances, instances, accountInstances, synchronizationListeners,
            reconnectListeners, outcomes, closeCalled>>

VARIABLES
  subscribeLocks,     \* instance.subscribeLock of each listed instance, by index
  assignedInstance,   \* this._socketInstancesByAccounts, per account of RouteAccounts
  connecting,         \* the accounts whose _rpcRequest awaits connect(), with the
                      \* index it took for the new instance
  connectedAccounts   \* the accounts with an entry in this._connectedHosts

rtVars == <<subscribeLocks, assignedInstance, connecting, connectedAccounts>>

VARIABLES
  listenerFails,         \* per synchronization listener, how its onConnected fails
  packetQueue,           \* this._eventQueues[accountId]: the queued 'authenticated'
                         \* packets, the head being processed
  onConnectedCalls,      \* the calls listener.onConnected has received, by packet
  unsettled,             \* the promises Promise.all(onConnectedPromises) waits for
  cancelSubscribeCalls,  \* the packets cancelSubscribe has been called for
  handledPackets         \* the packets whose handler has returned

lsVars == <<listenerFails, packetQueue, onConnectedCalls, unsettled, cancelSubscribeCalls,
            handledPackets>>

VARIABLES
  synchronizationFlags,  \* this._synchronizationFlags, by synchronization id
  startedPackets,        \* history: the flags the latest 'synchronizationStarted'
                         \* packet of each synchronization id carried
  flagListeners,         \* this._synchronizationListeners[accountId]
  infoPacket,            \* the synchronization id of the 'accountInformation' packet
                         \* whose handler is running
  awaited,               \* per listener, the call the handler awaits for it
  delivered              \* per listener, the calls the latest packet has made to it

sfVars == <<synchronizationFlags, startedPackets, flagListeners, infoPacket, awaited,
            delivered>>

VARIABLES
  sessionStore,   \* the session store of the dashboard server: req.session.userSlug
                  \* of each client's session
  inFlight,       \* the GET /dashboard/:slug requests that await MetaApi
  lastExchange    \* the latest request the server has answered, with its response

dbVars == <<sessionStore, inFlight, lastExchange>>

xtVars == <<sfVars, dbVars>>

otherVars == <<thVars, stVars, cnVars, rtVars, lsVars, xtVars>>

vars == <<rpcVars, evVars, otherVars>>

-----------------------------------------------------------------------------
(* Bounds of the model *)

MaxSeq == 3

MaxTmrOffset == 5

(* Client options (constructor) *)

Retries == 2
MinRetryDelay == 1
MaxRetryDelay == 2
RequestTimeout == 2
OrderingTimeout == 1

NoInstance == -1
NoSeq == 0

Listeners == {"l1", "l2"}

\* the (account, instance) whose packets are followed
StreamAccount == "a1"
StreamInstance == 1

Accounts == {"a1"}
CallIds == {1, 2}

\* the packets without a sequence number, and the timer events, that may occur
UnsequencedIds == {1}
TimerIds == {1}

RequestTypes == {"trade", "subscribe", "getOrders", "unsubscribe"}

WireErrors == {"ValidationError", "NotFoundError", "NotSynchronizedError",
               "TimeoutError", "NotAuthenticatedError", "TradeError",
               "UnauthorizedError", "TooManyRequestsError", "SomeOtherError"}

Min(a, b) == IF a < b THEN a ELSE b

Pow2(n) == 2 ^ n

RECURSIVE SetMin(_)
SetMin(S) ==
  LET x == CHOOSE y \in S : TRUE
  IN IF S = {x} THEN x ELSE Min(x, SetMin(S \ {x}))

\* one unit of time passes for a timer that has `t` units left
Elapse(t) == IF t > 0 THEN t - 1 ELSE 0

\* nothing has happened on the synchronization side
EvIdle ==
  /\ sequentialEventProcessing = TRUE
  /\ eventQueues = [exists |-> FALSE, events |-> <<>>]
  /\ active = {}
  /\ invoked = <<>>
  /\ orderer = [expected |-> 1, waitList |-> {}, sinceDelivery |-> 0]
  /\ arrived = [seqs |-> {}, reordered |-> FALSE, unsequenced |-> {}, timers |-> {}]
  /\ outOfOrder = <<>>
  /\ subscribes = <<>>

\* the throttler has seen no request
ThIdle ==
  /\ synchronizationIds = << >>
  /\ accountsBySynchronizationIds = {}
  /\ synchronizationQueue = << >>
  /\ sentSynchronizations = {}
  /\ scheduled = {}
  /\ reclaimed = {}
  /\ otherSynchronizing = 0
  /\ lastDeal = "none"

Hosts == {"h1", "h2"}

\* no stream of the account has been heard of
StIdle ==
  /\ connectedHosts = {}
  /\ statusTimers = [h \in Hosts |-> [exists |-> FALSE, left |-> -1]]
  /\ streamQueue = << >>
  /\ headPhase = "none"
  /\ immediateHandlers = {}
  /\ subscribing = FALSE
  /\ disconnectedRetryMode = FALSE
  /\ notes = {}
  /\ accountCancelled = FALSE

InstanceIds == {0, 1}
ConnAccounts == {"a1", "a2"}
\* the accounts synchronization listeners are added for
ListenerAccounts == {"a1"}

\* an instance object before connect() creates it
NoSocketInstance ==
  [created |-> FALSE, connected |-> FALSE, socket |-> "null", isReconnecting |-> FALSE,
   resolved |-> "no", requestResolves |-> {}, connecting |-> FALSE, loop |-> "none",
   auto |-> FALSE, wait |-> 0, notified |-> [a \in ConnAccounts |-> 0]]

\* the client right after construction
CnIdle ==
  /\ socketInstances = {}
  /\ instances = [i \in InstanceIds |-> NoSocketInstance]
  /\ accountInstances = [a \in ConnAccounts |-> NoInstance]
  /\ synchronizationListeners = {}
  /\ reconnectListeners = {}
  /\ outcomes = [a \in ConnAccounts |-> [state |-> "none", instance |-> NoInstance]]
  /\ closeCalled = FALSE

\* this._maxAccountsPerInstance, scaled down from 100
MaxAccountsPerInstance == 2

RouteAccounts == 1 .. (MaxAccountsPerInstance + 1)
RouteInstanceIds == {0, 1}

\* no instance, no assignment, no stream
RtIdle ==
  /\ subscribeLocks = << >>
  /\ assignedInstance = [a \in RouteAccounts |-> NoInstance]
  /\ connecting = << >>
  /\ connectedAccounts = {}

\* the listeners of this._synchronizationListeners[accountId], in the order
\* they were added
SyncListeners == <<"l1", "l2", "l3">>
ListenerIds == {SyncListeners[i] : i \in DOMAIN SyncListeners}
AuthPackets == {1, 2}
FailureModes == {"no", "rejects", "throws"}

\* no packet has arrived; no listener fails
LsIdle ==
  /\ listenerFails = [l \in ListenerIds |-> "no"]
  /\ packetQueue = << >>
  /\ onConnectedCalls = {}
  /\ unsettled = {}
  /\ cancelSubscribeCalls = {}
  /\ handledPackets = {}

FlagSyncIds == {"s1", "s2"}
FlagListenerIds == {"l1", "l2"}
NoFlags == [recorded |-> FALSE, positionsUpdated |-> TRUE, ordersUpdated |-> TRUE]
NoStarted == [positionsUpdated |-> "none", ordersUpdated |-> "none"]
NoPacket == "none"
PacketFlags == {"absent", "true", "false"}

\* no synchronization has started; no packet is being handled
SfIdle ==
  /\ synchronizationFlags = [id \in FlagSyncIds |-> NoFlags]
  /\ startedPackets = [id \in FlagSyncIds |-> NoStarted]
  /\ flagListeners = FlagListenerIds
  /\ infoPacket = NoPacket
  /\ awaited = [l \in FlagListenerIds |-> "none"]
  /\ delivered = [l \in FlagListenerIds |-> << >>]

Clients == {"c1", "c2"}
NoUser == "none"

Exchange(route, client, username, password, slug, status, page, data) ==
  [route |-> route, client |-> client, username |-> username, password |-> password,
   slug |-> slug, status |-> status, page |-> page, data |-> data]

\* the dashboard server has answered no request; nobody is logged in
DbIdle ==
  /\ sessionStore = [c \in Clients |-> NoUser]
  /\ inFlight = {}
  /\ lastExchange = Exchange("none", "none", "none", "none", "none", "none", "none", NoUser)

XtIdle == SfIdle /\ DbIdle

OtherIdle == ThIdle /\ StIdle /\ CnIdle /\ RtIdle /\ LsIdle /\ XtIdle

-----------------------------------------------------------------------------
(* Request dispatcher.  Every instant the dispatcher compares with         *)
(* Date.now() is kept as its distance from now: timeoutIn, wakeIn and      *)
(* retryIn count down as time passes.                                      *)

\* _convertError: the Error subclass (its name) built for a processingError
ConvertError(wire) ==
  CASE wire = "ValidationError"       -> "ValidationError"
    [] wire = "NotFoundError"         -> "NotFoundError"
    [] wire = "NotSynchronizedError"  -> "NotSynchronizedError"
    [] wire = "TimeoutError"          -> "TimeoutError"
    [] wire = "NotAuthenticatedError" -> "NotConnectedError"
    [] wire = "TradeError"            -> "TradeError"
    [] wire = "UnauthorizedError"     -> "UnauthorizedError"
    [] wire = "TooManyRequestsError"  -> "TooManyRequestsError"
    [] OTHER                          -> "InternalError"

NoRetryTypes_TradeOnly == {"trade"}

\* request types _rpcRequest sends once, outside the retry loop
NoRetryTypes == {"trade", "subscribe"}

RetryableNames_WithValidation ==
  {"NotSynchronizedError", "TimeoutError", "NotAuthenticatedError", "InternalError",
   "ValidationError"}

\* err.name values the retry loop backs off on
RetryableNames == {"NotSynchronizedError", "TimeoutError", "NotAuthenticatedError",
                   "InternalError"}

\* the backoff sleep of the transient branch, for the current retryCounter
RetryDelay(retryCounter) ==
  Min(Pow2(retryCounter) * MinRetryDelay, MaxRetryDelay)

\* calcRequestTime: the budget loop of the TooManyRequestsError branch
RECURSIVE CalcRequestTime(_)
CalcRequestTime(calcRetryCounter) ==
  IF calcRetryCounter < Retries
  THEN Min(Pow2(calcRetryCounter + 1) * MinRetryDelay, MaxRetryDelay)
       + CalcRequestTime(calcRetryCounter + 1)
  ELSE 0

TooManyRequestsRetry_IgnoresBudget(retryCounter, retryIn) == retryCounter < Retries

\* the test of the TooManyRequestsError branch, wait and resend or throw:
\* Date.now() + calcRequestTime > retryTime && retryCounter < retries,
\* with retryTime = Date.now() + retryIn
TooManyRequestsRetry(retryCounter, retryIn) ==
  CalcRequestTime(retryCounter) > retryIn /\ retryCounter < Retries

MustWait_Never(retryIn) == FALSE

\* Date.now() < retryTime: the wait of the TooManyRequestsError branch is awaited
MustWait(retryIn) == retryIn > 0

NewCall ==
  [pc |-> "idle", type |-> "none", acct |-> "none", retryCounter |-> 0,
   sent |-> 0, unanswered |-> 0, timeoutIn |-> 0, wakeIn |-> 0,
   outcome |-> "none", err |-> "none", retryIn |-> 0,
   failures |-> 0, rejectAt |-> "none", unsubDuring |-> FALSE, pending |-> FALSE]

\* _makeRequest: registers the pending entry, arms the timeout, emits 'request'
MakeRequest(call) ==
  [call EXCEPT !.pc = "inflight", !.sent = @ + 1, !.unanswered = @ + 1,
               !.timeoutIn = RequestTimeout, !.wakeIn = 0, !.pending = TRUE]

\* throw err: the promise _rpcRequest returned is rejected
Reject(call, where) ==
  [call EXCEPT !.pc = "done", !.outcome = "error", !.rejectAt = where,
               !.timeoutIn = 0, !.wakeIn = 0]

AfterWait_Unchecked(call, byAccounts) ==
  MakeRequest([call EXCEPT !.retryCounter = @ + 1])

\* the rest of the catch block once the wait is over: retryCounter++, then the
\* check of the account's assignment, then the next turn of while(true)
AfterWait(call, byAccounts) ==
  LET c1 == [call EXCEPT !.retryCounter = @ + 1]
  IN IF byAccounts[call.acct] = NoInstance
     THEN Reject(c1, "afterWait")
     ELSE MakeRequest(c1)

\* the catch block of _rpcRequest (and the plain return for trade/subscribe),
\* up to its first await
OnError(call, name, retryIn, byAccounts) ==
  LET c0 == [call EXCEPT !.err = name, !.retryIn = retryIn, !.failures = @ + 1,
                         !.timeoutIn = 0]
  IN IF call.type \in NoRetryTypes
     THEN Reject(c0, "failure")
     ELSE IF name = "TooManyRequestsError"
     THEN IF TooManyRequestsRetry(call.retryCounter, retryIn)
          THEN IF MustWait(retryIn)
               THEN [c0 EXCEPT !.pc = "sleeping", !.wakeIn = retryIn]
               ELSE AfterWait(c0, byAccounts)
          ELSE Reject(c0, "failure")
     ELSE IF name \in RetryableNames /\ call.retryCounter < Retries
     THEN [c0 EXCEPT !.pc = "sleeping", !.wakeIn = RetryDelay(call.retryCounter)]
     ELSE Reject(c0, "failure")

\* close(): every pending request is rejected with Error('MetaApi connection
\* closed'), the assignments are dropped, the sockets are closed
ClosedAssignments == [a \in Accounts |-> NoInstance]

CloseCall(call) ==
  LET c0 == [call EXCEPT !.unanswered = 0, !.pending = FALSE]
  IN IF call.pc = "inflight"
     THEN OnError(c0, "Error", 0, ClosedAssignments)
     ELSE c0

\* history: unsubscribe(acct) is called while `call`, a request of the same
\* account, is in flight and has not failed yet
StartedDuringFirstAttempt(call, type, acct) ==
  /\ type = "unsubscribe"
  /\ call.acct = acct
  /\ call.pc = "inflight"
  /\ call.failures = 0

\* _rpcRequest up to the first _makeRequest: the account is routed to an
\* instance (assigned when it has none) and the request is emitted
StartCall(c, type, acct) ==
  /\ UNCHANGED <<evVars, otherVars>>
  /\ calls[c].pc = "idle"
  /\ \A d \in CallIds : d < c => calls[d].pc # "idle"
  /\ socketInstancesByAccounts' =
       IF socketInstancesByAccounts[acct] = NoInstance
       THEN [socketInstancesByAccounts EXCEPT ![acct] = 0]
       ELSE socketInstancesByAccounts
  /\ calls' = [d \in CallIds |->
                 IF d = c
                 THEN MakeRequest([calls[c] EXCEPT !.type = type, !.acct = acct])
                 ELSE [calls[d] EXCEPT !.unsubDuring =
                         @ \/ StartedDuringFirstAttempt(calls[d], type, acct)]]
  /\ UNCHANGED closed

\* socket 'response': resolves the pending request; unsubscribe() then deletes
\* the account's assignment
Response(c) ==
  /\ UNCHANGED <<evVars, otherVars>>
  /\ calls[c].unanswered > 0
  /\ IF calls[c].pc = "inflight"
     THEN /\ calls' = [calls EXCEPT ![c] = [@ EXCEPT !.pc = "done", !.outcome = "ok",
                                                     !.unanswered = @ - 1,
                                                     !.timeoutIn = 0, !.pending = FALSE]]
          /\ socketInstancesByAccounts' =
               IF calls[c].type = "unsubscribe"
               THEN [socketInstancesByAccounts EXCEPT ![calls[c].acct] = NoInstance]
               ELSE socketInstancesByAccounts
     ELSE /\ calls' = [calls EXCEPT ![c] = [@ EXCEPT !.unanswered = @ - 1,
                                                     !.pending = FALSE]]
          /\ UNCHANGED socketInstancesByAccounts
  /\ UNCHANGED closed

\* socket 'processingError': rejects the pending request with _convertError(data)
ProcessingError(c, wire, retryIn) ==
  /\ UNCHANGED <<evVars, otherVars>>
  /\ calls[c].unanswered > 0
  /\ wire # "UnauthorizedError"
  /\ IF calls[c].pc = "inflight"
     THEN calls' = [calls EXCEPT ![c] =
                      OnError([@ EXCEPT !.unanswered = @ - 1, !.pending = FALSE],
                              ConvertError(wire), retryIn, socketInstancesByAccounts)]
     ELSE calls' = [calls EXCEPT ![c] = [@ EXCEPT !.unanswered = @ - 1,
                                                  !.pending = FALSE]]
  /\ UNCHANGED <<socketInstancesByAccounts, closed>>

\* socket 'processingError' with UnauthorizedError: _convertError runs close()
Unauthorized(c) ==
  /\ UNCHANGED <<evVars, otherVars>>
  /\ calls[c].unanswered > 0
  /\ closed' = TRUE
  /\ socketInstancesByAccounts' = ClosedAssignments
  /\ calls' = [d \in CallIds |->
                 IF d = c /\ calls[c].pc = "inflight"
                 THEN OnError([calls[c] EXCEPT !.unanswered = 0, !.pending = FALSE],
                              ConvertError("UnauthorizedError"), 0, ClosedAssignments)
                 ELSE CloseCall(calls[d])]

\* the timeout timer of _makeRequest wins the race
RequestTimedOut(c) ==
  /\ UNCHANGED <<evVars, otherVars>>
  /\ calls[c].pc = "inflight"
  /\ calls[c].timeoutIn = 0
  /\ calls' = [calls EXCEPT ![c] =
                 OnError(@, "TimeoutError", 0, socketInstancesByAccounts)]
  /\ UNCHANGED <<socketInstancesByAccounts, closed>>

\* the setTimeout a retry awaits fires
Wake(c) ==
  /\ UNCHANGED <<evVars, otherVars>>
  /\ calls[c].pc = "sleeping"
  /\ calls[c].wakeIn = 0
  /\ calls' = [calls EXCEPT ![c] = AfterWait(@, socketInstancesByAccounts)]
  /\ UNCHANGED <<socketInstancesByAccounts, closed>>

\* one unit of time passes
Tick ==
  /\ UNCHANGED <<evVars, otherVars>>
  /\ calls' = [c \in CallIds |->
                 [calls[c] EXCEPT !.timeoutIn = Elapse(@), !.wakeIn = Elapse(@),
                                  !.retryIn = Elapse(@)]]
  /\ calls' # calls
  /\ UNCHANGED <<socketInstancesByAccounts, closed>>

\* no request has been made
RpcIdle ==
  /\ socketInstancesByAccounts = [a \in Accounts |-> NoInstance]
  /\ calls = [c \in CallIds |-> NewCall]
  /\ closed = FALSE

InitRpc ==
  /\ EvIdle
  /\ RpcIdle
  /\ OtherIdle

NextRpc ==
  \/ \E c \in CallIds, t \in RequestTypes, a \in Accounts : StartCall(c, t, a)
  \/ \E c \in CallIds : Response(c)
  \/ \E c \in CallIds, w \in WireErrors \ {"TooManyRequestsError"} :
       ProcessingError(c, w, 0)
  \/ \E c \in CallIds, d \in 0..MaxTmrOffset :
       ProcessingError(c, "TooManyRequestsError", d)
  \/ \E c \in CallIds : Unauthorized(c)
  \/ \E c \in CallIds : RequestTimedOut(c)
  \/ \E c \in CallIds : Wake(c)
  \/ Tick

SpecRpc == InitRpc /\ [][NextRpc]_vars

-----------------------------------------------------------------------------
(* Synchronization packets: packet orderer, per-account event queue *)

Packet(seq, type, id) ==
  [kind |-> "packet", accountId |-> StreamAccount, instanceIndex |-> StreamInstance,
   sequenceNumber |-> seq, type |-> type, id |-> id]

\* the event the silence timer of a stream queues: onDisconnected(true)
TimerEvent(id) ==
  [kind |-> "timer", accountId |-> StreamAccount, instanceIndex |-> StreamInstance,
   sequenceNumber |-> NoSeq, type |-> "onDisconnected", id |-> id]

\* Packet orderer: the buffered packets that follow one another from number n
RECURSIVE ReleaseFrom(_, _)
ReleaseFrom(n, waitList) ==
  IF \E p \in waitList : p.sequenceNumber = n
  THEN <<CHOOSE p \in waitList : p.sequenceNumber = n>> \o ReleaseFrom(n + 1, waitList)
  ELSE <<>>

\* Packet orderer: restoreOrder(packet), the packets ready for processing, in
\* order, and the orderer's state afterwards
RestoreOrder(ord, packet) ==
  IF packet.sequenceNumber = NoSeq
  THEN [released |-> <<packet>>, orderer |-> ord]
  ELSE LET buffered == IF packet.sequenceNumber >= ord.expected
                       THEN ord.waitList \cup {packet}
                       ELSE ord.waitList
           released == ReleaseFrom(ord.expected, buffered)
       IN [released |-> released,
           orderer |->
             [expected |-> ord.expected + Len(released),
              waitList |-> {p \in buffered :
                              p.sequenceNumber >= ord.expected + Len(released)},
              sinceDelivery |-> IF released = <<>> THEN ord.sinceDelivery ELSE 0]]

\* Packet orderer: the number the buffer resumes from once a gap is given up
ResumeFrom(ord) == SetMin({p.sequenceNumber : p \in ord.waitList})

\* Packet orderer: the next expected number has not arrived within the wait
\* window after the most recent delivery, while later numbers are buffered
GapTimedOut(ord) ==
  /\ ord.waitList # {}
  /\ ResumeFrom(ord) > ord.expected
  /\ ord.sinceDelivery > OrderingTimeout

\* the state the queue operations work on
QueueState == [queue |-> eventQueues, active |-> active, invoked |-> invoked]

\* an event's handler is called: _processSynchronizationPacket(packet) or
\* onDisconnected(true) invokes every listener and awaits their promises
StartHandler(st, event) ==
  [st EXCEPT !.active = @ \cup {[event |-> event, pending |-> Cardinality(Listeners)]},
             !.invoked = Append(@, event)]

RECURSIVE StartHandlers(_, _)
StartHandlers(st, events) ==
  IF events = <<>> THEN st
  ELSE StartHandlers(StartHandler(st, Head(events)), Tail(events))

\* _callAccountEvents up to its first await: the head of the queue is called,
\* or the empty queue is deleted
CallAccountEvents(st) ==
  IF ~st.queue.exists THEN st
  ELSE IF st.queue.events # <<>>
  THEN StartHandler(st, Head(st.queue.events))
  ELSE [st EXCEPT !.queue = [exists |-> FALSE, events |-> <<>>]]

AfterEvent_NoShift(st) == CallAccountEvents(st)

\* _callAccountEvents after the await: shift(), then the next turn of the loop
AfterEvent(st) ==
  CallAccountEvents([st EXCEPT !.queue.events = Tail(@)])

QueuePackets_Reversed(st, packet, packets) ==
  LET kept == SelectSeq(packets, LAMBDA p : p.type # "noop")
      events == [i \in 1..Len(kept) |-> kept[Len(kept) + 1 - i]]
  IN IF sequentialEventProcessing /\ packet.sequenceNumber # NoSeq
     THEN IF ~st.queue.exists
          THEN CallAccountEvents([st EXCEPT !.queue = [exists |-> TRUE, events |-> events]])
          ELSE [st EXCEPT !.queue.events = @ \o events]
     ELSE StartHandlers(st, events)

QueuePackets_AllQueued(st, packet, packets) ==
  LET events == SelectSeq(packets, LAMBDA p : p.type # "noop")
  IN IF sequentialEventProcessing
     THEN IF ~st.queue.exists
          THEN CallAccountEvents([st EXCEPT !.queue = [exists |-> TRUE, events |-> events]])
          ELSE [st EXCEPT !.queue.events = @ \o events]
     ELSE StartHandlers(st, events)

\* queuePacket without the call of restoreOrder: `packets` is its result
QueuePackets(st, packet, packets) ==
  LET events == SelectSeq(packets, LAMBDA p : p.type # "noop")
  IN IF sequentialEventProcessing /\ packet.sequenceNumber # NoSeq
     THEN IF ~st.queue.exists
          THEN CallAccountEvents([st EXCEPT !.queue = [exists |-> TRUE, events |-> events]])
          ELSE [st EXCEPT !.queue.events = @ \o events]
     ELSE StartHandlers(st, events)

QueueEvent_Immediate(st, event) == StartHandler(st, event)

\* queueEvent(accountId, event)
QueueEvent(st, event) ==
  IF sequentialEventProcessing
  THEN IF ~st.queue.exists
       THEN CallAccountEvents([st EXCEPT !.queue = [exists |-> TRUE, events |-> <<event>>]])
       ELSE [st EXCEPT !.queue.events = Append(@, event)]
  ELSE StartHandler(st, event)

\* the handler of `a` has nothing left to await: it returns; when it was
\* called by _callAccountEvents the loop goes on
HandlerReturns(st, a) ==
  LET st1 == [st EXCEPT !.active = @ \ {a}]
  IN IF st.queue.exists /\ st.queue.events # <<>> /\ Head(st.queue.events) = a.event
     THEN AfterEvent(st1)
     ELSE st1

OnOutOfOrderPacket_LogOnly(subs, accountId, instanceIndex) == subs

\* onOutOfOrderPacket(accountId, instanceIndex, expected, actual, ...): logs
\* and calls ensureSubscribe(accountId, instanceIndex)
OnOutOfOrderPacket(subs, accountId, instanceIndex) ==
  Append(subs, [accountId |-> accountId, instanceIndex |-> instanceIndex])

SetQueueState(st) ==
  /\ eventQueues' = st.queue
  /\ active' = st.active
  /\ invoked' = st.invoked

\* the synchronizationId a packet may carry ("none": it carries none)
NoSyncId == "none"
PacketSyncIds == {NoSyncId, "ABC"}
ThrottlerIdSets == {{}, {"ABC"}}

PacketType_RequireId(synchronizationId, activeSynchronizationIds) ==
  IF synchronizationId \in activeSynchronizationIds THEN "data" ELSE "noop"

\* the 'synchronization' handler before queuePacket: a packet whose
\* synchronizationId is not one of the throttler's active ids becomes a noop
PacketType(synchronizationId, activeSynchronizationIds) ==
  IF synchronizationId = NoSyncId \/ synchronizationId \in activeSynchronizationIds
  THEN "data"
  ELSE "noop"

\* socket 'synchronization': a packet with sequence number `seq` arrives
\* (type "noop": its synchronizationId is not an active one)
Synchronization(seq, type) ==
  /\ seq \notin arrived.seqs
  /\ LET packet == Packet(seq, type, 0)
         r == RestoreOrder(orderer, packet)
     IN /\ orderer' = r.orderer
        /\ SetQueueState(QueuePackets(QueueState, packet, r.released))
  /\ arrived' = [arrived EXCEPT !.seqs = @ \cup {seq},
                               !.reordered = @ \/ \E n \in arrived.seqs : n > seq]
  /\ UNCHANGED <<sequentialEventProcessing, outOfOrder, subscribes, rpcVars, otherVars>>

\* socket 'synchronization': a packet without a sequence number arrives
SynchronizationUnsequenced(id, type) ==
  /\ id \notin arrived.unsequenced
  /\ LET packet == Packet(NoSeq, type, id)
         r == RestoreOrder(orderer, packet)
     IN /\ orderer' = r.orderer
        /\ SetQueueState(QueuePackets(QueueState, packet, r.released))
  /\ arrived' = [arrived EXCEPT !.unsequenced = @ \cup {id}]
  /\ UNCHANGED <<sequentialEventProcessing, outOfOrder, subscribes, rpcVars, otherVars>>

\* the silence timer of the stream fires: queueEvent(accountId, onDisconnected)
StatusTimerFires(id) ==
  /\ id \notin arrived.timers
  /\ SetQueueState(QueueEvent(QueueState, TimerEvent(id)))
  /\ arrived' = [arrived EXCEPT !.timers = @ \cup {id}]
  /\ UNCHANGED <<sequentialEventProcessing, orderer, outOfOrder, subscribes, rpcVars, otherVars>>

\* a promise a listener returned to the running handler `a` settles (resolved
\* or rejected: the rejection is caught and logged)
ListenerSettles(a) ==
  /\ a \in active
  /\ a.pending > 0
  /\ LET b == [a EXCEPT !.pending = @ - 1]
         st == [QueueState EXCEPT !.active = (@ \ {a}) \cup {b}]
     IN IF b.pending = 0
        THEN SetQueueState(HandlerReturns(st, b))
        ELSE SetQueueState(st)
  /\ UNCHANGED <<sequentialEventProcessing, orderer, arrived, outOfOrder, subscribes,
                 rpcVars, otherVars>>

\* Packet orderer: the periodic job finds a gap that outlived the wait window:
\* it notifies onOutOfOrderPacket once and resumes from the next number seen
OutOfOrderJob ==
  /\ GapTimedOut(orderer)
  /\ outOfOrder' = Append(outOfOrder,
                          [accountId |-> StreamAccount, instanceIndex |-> StreamInstance,
                           expected |-> orderer.expected, actual |-> ResumeFrom(orderer)])
  /\ subscribes' = OnOutOfOrderPacket(subscribes, StreamAccount, StreamInstance)
  /\ orderer' = [orderer EXCEPT !.expected = ResumeFrom(orderer)]
  /\ UNCHANGED <<sequentialEventProcessing, eventQueues, active, invoked, arrived, rpcVars, otherVars>>

\* one unit of time passes
TickEvents ==
  /\ orderer.sinceDelivery <= OrderingTimeout
  /\ orderer' = [orderer EXCEPT !.sinceDelivery = @ + 1]
  /\ UNCHANGED <<sequentialEventProcessing, eventQueues, active, invoked, arrived,
                 outOfOrder, subscribes, rpcVars, otherVars>>

InitEvents ==
  /\ RpcIdle
  /\ OtherIdle
  /\ sequentialEventProcessing \in BOOLEAN
  /\ eventQueues = [exists |-> FALSE, events |-> <<>>]
  /\ active = {}
  /\ invoked = <<>>
  /\ orderer = [expected |-> 1, waitList |-> {}, sinceDelivery |-> 0]
  /\ arrived = [seqs |-> {}, reordered |-> FALSE, unsequenced |-> {}, timers |-> {}]
  /\ outOfOrder = <<>>
  /\ subscribes = <<>>

NextEvents ==
  \/ \E seq \in 1..MaxSeq, sid \in PacketSyncIds, ids \in ThrottlerIdSets :
       Synchronization(seq, PacketType(sid, ids))
  \/ \E id \in UnsequencedIds, sid \in PacketSyncIds, ids \in ThrottlerIdSets :
       SynchronizationUnsequenced(id, PacketType(sid, ids))
  \/ \E id \in TimerIds : StatusTimerFires(id)
  \/ \E a \in active : ListenerSettles(a)
  \/ OutOfOrderJob
  \/ TickEvents

SpecEvents == InitEvents /\ [][NextEvents]_vars

\* a handler that has been called returns: every promise it awaits settles
FairEvents == WF_vars(\E a \in active : ListenerSettles(a))

SpecEventsFair == SpecEvents /\ FairEvents

-----------------------------------------------------------------------------
(* Synchronization throttler (one per socket instance).  The client hands  *)
(* every synchronize request to the throttler of the account's instance,   *)
(* renews a slot for every synchronization packet that carries its id and  *)
(* releases it on dealSynchronizationFinished.  A slot's age is kept as    *)
(* the time left before it expires.  Specification SpecThrottler.          *)

\* the time without renewal after which a slot expires
SyncTimeout == 2

\* subscribedAccountIds().length, and the accounts one slot is granted for
SubscribedAccounts == 11
AccountsPerSlot == 10

\* the option maxConcurrentSynchronizations, shared by all socket instances
MaxConcurrentSynchronizationsOpt == 3

SyncIds == {"s1", "s2", "s3", "s4", "s5"}

\* the account and instance index a synchronization id is requested for
SyncKey(id) ==
  CASE id = "s1" -> [accountId |-> "a1", instanceIndex |-> 0]
    [] id = "s2" -> [accountId |-> "a2", instanceIndex |-> 0]
    [] id = "s3" -> [accountId |-> "a3", instanceIndex |-> 0]
    [] id = "s4" -> [accountId |-> "a3", instanceIndex |-> 0]
    [] id = "s5" -> [accountId |-> "a1", instanceIndex |-> 1]

Max(a, b) == IF a > b THEN a ELSE b

CeilDiv(a, b) == (a + b - 1) \div b

Range(q) == {q[i] : i \in DOMAIN q}

Throttler ==
  [ids |-> synchronizationIds, accounts |-> accountsBySynchronizationIds,
   queue |-> synchronizationQueue, sent |-> sentSynchronizations]

SynchronizingAccounts(th) == {SyncKey(i).accountId : i \in DOMAIN th.ids}

ActiveSynchronizationIds(th) == th.accounts

MaxConcurrentSynchronizations ==
  Min(Max(CeilDiv(SubscribedAccounts, AccountsPerSlot), 1), MaxConcurrentSynchronizationsOpt)

IsSynchronizationAvailable_CapOnly(th, other) ==
  other + Cardinality(SynchronizingAccounts(th)) < MaxConcurrentSynchronizationsOpt

IsSynchronizationAvailable_OwnOnly(th, other) ==
  Cardinality(SynchronizingAccounts(th)) < MaxConcurrentSynchronizations

IsSynchronizationAvailable(th, other) ==
  /\ other + Cardinality(SynchronizingAccounts(th)) < MaxConcurrentSynchronizationsOpt
  /\ Cardinality(SynchronizingAccounts(th)) < MaxConcurrentSynchronizations

\* the request takes a slot and goes to _rpcRequest
SendSynchronize(th, id) ==
  [th EXCEPT !.ids = [i \in DOMAIN th.ids \cup {id} |->
                        IF i = id THEN SyncTimeout ELSE th.ids[i]],
             !.sent = @ \cup {id}]

RECURSIVE AdvanceQueue(_, _)
AdvanceQueue(th, other) ==
  IF th.queue # << >> /\ IsSynchronizationAvailable(th, other)
  THEN AdvanceQueue(SendSynchronize([th EXCEPT !.queue = Tail(@)], Head(th.queue)), other)
  ELSE th

Forget(th, gone) ==
  [th EXCEPT !.ids = [i \in DOMAIN th.ids \ gone |-> th.ids[i]],
             !.accounts = @ \ gone,
             !.queue = SelectSeq(@, LAMBDA y : y \notin gone)]

RemoveSynchronizationId(th, id, other) == AdvanceQueue(Forget(th, {id}), other)

ScheduleSynchronize_KeepOlder(th, id, other) ==
  LET th2 == [th EXCEPT !.accounts = @ \cup {id}]
  IN IF IsSynchronizationAvailable(th2, other)
     THEN SendSynchronize(th2, id)
     ELSE [th2 EXCEPT !.queue = Append(@, id)]

ScheduleSynchronize(th, id, other) ==
  LET same == {k \in th.accounts : SyncKey(k) = SyncKey(id)}
      th1 == IF same = {} THEN th ELSE AdvanceQueue(Forget(th, same), other)
      th2 == [th1 EXCEPT !.accounts = @ \cup {id}]
  IN IF IsSynchronizationAvailable(th2, other)
     THEN SendSynchronize(th2, id)
     ELSE [th2 EXCEPT !.queue = Append(@, id)]

UpdateSynchronizationId(th, id) ==
  IF id \in DOMAIN th.ids THEN [th EXCEPT !.ids[id] = SyncTimeout] ELSE th

Expired_All(th) == DOMAIN th.ids

Expired(th) == {i \in DOMAIN th.ids : th.ids[i] = 0}

RemoveOldSyncIds(th, other) == AdvanceQueue(Forget(th, Expired(th)), other)

OnDisconnect(th) == [ids |-> << >>, accounts |-> {}, queue |-> << >>, sent |-> th.sent]

SetThrottler(th) ==
  /\ synchronizationIds' = th.ids
  /\ accountsBySynchronizationIds' = th.accounts
  /\ synchronizationQueue' = th.queue
  /\ sentSynchronizations' = th.sent

\* client.synchronize(accountId, instanceIndex, host, synchronizationId, ...) for an
\* account that is assigned to this socket instance
Synchronize(id) ==
  /\ id \notin scheduled
  /\ scheduled' = scheduled \cup {id}
  /\ SetThrottler(ScheduleSynchronize(Throttler, id, otherSynchronizing))
  /\ UNCHANGED <<reclaimed, otherSynchronizing, lastDeal, rpcVars, evVars, stVars, cnVars, rtVars, lsVars, xtVars>>

\* a synchronization packet of a request the server has received; a packet whose
\* id is not among the throttler's active ids is turned into a noop on arrival
SynchronizationPacket(id) ==
  /\ id \in sentSynchronizations
  /\ id \in ActiveSynchronizationIds(Throttler)
  /\ SetThrottler(UpdateSynchronizationId(Throttler, id))
  /\ UNCHANGED <<scheduled, reclaimed, otherSynchronizing, lastDeal, rpcVars, evVars, stVars, cnVars, rtVars, lsVars, xtVars>>

\* the loop over the account's synchronization listeners: each turn calls
\* removeSynchronizationId(data.synchronizationId)
RECURSIVE RemoveForEachListener(_, _, _, _)
RemoveForEachListener(th, id, other, n) ==
  IF n = 0
  THEN th
  ELSE RemoveForEachListener(RemoveSynchronizationId(th, id, other), id, other, n - 1)

\* the dealSynchronizationFinished packet, with `n` synchronization listeners
\* registered for the account
DealSynchronizationFinished(id, n) ==
  /\ id \in sentSynchronizations
  /\ id \in ActiveSynchronizationIds(Throttler)
  /\ SetThrottler(RemoveForEachListener(UpdateSynchronizationId(Throttler, id), id,
                                        otherSynchronizing, n))
  /\ lastDeal' = id
  /\ UNCHANGED <<scheduled, reclaimed, otherSynchronizing, rpcVars, evVars, stVars, cnVars, rtVars, lsVars, xtVars>>

\* the throttler's periodic job
RemoveOldSyncIdsJob ==
  /\ SetThrottler(RemoveOldSyncIds(Throttler, otherSynchronizing))
  /\ reclaimed' = reclaimed \cup Expired(Throttler)
  /\ UNCHANGED <<scheduled, otherSynchronizing, lastDeal, rpcVars, evVars, stVars, cnVars, rtVars, lsVars, xtVars>>

\* the oldest queued request has waited for too long and is given up
QueueItemTimesOut ==
  /\ synchronizationQueue # << >>
  /\ SetThrottler(Forget(Throttler, {Head(synchronizationQueue)}))
  /\ UNCHANGED <<scheduled, reclaimed, otherSynchronizing, lastDeal, rpcVars, evVars, stVars, cnVars, rtVars, lsVars, xtVars>>

\* the socket of the instance disconnects
SocketDisconnected ==
  /\ accountsBySynchronizationIds # {}
  /\ SetThrottler(OnDisconnect(Throttler))
  /\ UNCHANGED <<scheduled, reclaimed, otherSynchronizing, lastDeal, rpcVars, evVars, stVars, cnVars, rtVars, lsVars, xtVars>>

\* the throttlers of the other socket instances finish synchronizations, or start
\* one, which they too do only below the shared cap
OtherInstancesChange(n) ==
  /\ \/ n < otherSynchronizing
     \/ /\ n = otherSynchronizing + 1
        /\ IsSynchronizationAvailable_CapOnly(Throttler, otherSynchronizing)
  /\ otherSynchronizing' = n
  /\ UNCHANGED <<synchronizationIds, accountsBySynchronizationIds, synchronizationQueue,
                 sentSynchronizations, scheduled, reclaimed, lastDeal, rpcVars, evVars, stVars, cnVars, rtVars, lsVars, xtVars>>

\* time passes; the periodic job runs before an expired slot ages further
TickThrottler ==
  /\ DOMAIN synchronizationIds # {}
  /\ Expired(Throttler) = {}
  /\ synchronizationIds' = [i \in DOMAIN synchronizationIds |-> Elapse(synchronizationIds[i])]
  /\ UNCHANGED <<accountsBySynchronizationIds, synchronizationQueue, sentSynchronizations,
                 scheduled, reclaimed, otherSynchronizing, lastDeal, rpcVars, evVars, stVars, cnVars, rtVars, lsVars, xtVars>>

InitThrottler ==
  /\ RpcIdle
  /\ EvIdle
  /\ ThIdle
  /\ StIdle
  /\ CnIdle
  /\ RtIdle
  /\ LsIdle
  /\ XtIdle

NextThrottler ==
  \/ \E id \in SyncIds : Synchronize(id)
  \/ \E id \in SyncIds : SynchronizationPacket(id)
  \/ \E id \in SyncIds, n \in 0..2 : DealSynchronizationFinished(id, n)
  \/ RemoveOldSyncIdsJob
  \/ QueueItemTimesOut
  \/ SocketDisconnected
  \/ \E n \in 0..MaxConcurrentSynchronizationsOpt : OtherInstancesChange(n)
  \/ TickThrottler

SpecThrottler == InitThrottler /\ [][NextThrottler]_vars

-----------------------------------------------------------------------------
(* Stream state of one account and instance number, with a stream per host: *)
(* _connectedHosts, the silence timers _statusTimers, and the packets       *)
(* 'authenticated', 'disconnected' and 'status' of                          *)
(* _processSynchronizationPacket.  Events are processed sequentially        *)
(* (_sequentialEventProcessing, the default): a packet with a sequence      *)
(* number and every timer event wait in the account's queue, a packet       *)
(* without one is processed on arrival.  Specification SpecStreams.         *)

\* the silence after which a stream's timer fires
SilenceTimeout == 1

\* the handlers that may be unfinished at a time, in the queue and outside it
HandlerIds == {1, 2}

\* the sessionId of an 'authenticated' packet: absent, that of the socket instance
\* the account is assigned to, or another one
Sessions == {"none", "own", "other"}

StreamEvent(kind, host, session, authd, alone) ==
  [kind |-> kind, host |-> host, session |-> session, authd |-> authd, alone |-> alone]

\* the stream state a step starts from
Streams ==
  [connected |-> connectedHosts, timers |-> statusTimers, queue |-> streamQueue,
   phase |-> headPhase, imm |-> immediateHandlers, subscribing |-> subscribing,
   retryMode |-> disconnectedRetryMode, notes |-> {}, cancelled |-> accountCancelled]

Note(st, what, host) == [st EXCEPT !.notes = @ \cup {<<what, host>>}]

IsOnlyActiveInstance(st, h) == st.connected \subseteq {h}

CancelDisconnectTimer(st, h) == [st EXCEPT !.timers[h].left = -1]

ResetDisconnectTimer(st, h) ==
  [st EXCEPT !.timers[h] = [exists |-> TRUE, left |-> SilenceTimeout]]

\* subscription manager
CancelSubscribe(st) ==
  Note([st EXCEPT !.subscribing = FALSE, !.retryMode = FALSE], "cancelSubscribe", "-")

\* cancelAccount: the subscribe tasks of the account are dropped
CancelAccount(st) ==
  Note([st EXCEPT !.subscribing = FALSE, !.retryMode = FALSE, !.cancelled = TRUE],
       "cancelAccount", "-")

\* onDisconnected and onTimeout resubscribe an account unless it was cancelled
SmOnDisconnected(st) ==
  IF st.cancelled
  THEN Note(st, "subscriptionManager.onDisconnected", "-")
  ELSE Note([st EXCEPT !.subscribing = TRUE, !.retryMode = TRUE],
            "subscriptionManager.onDisconnected", "-")

SmOnTimeout(st) ==
  IF st.cancelled
  THEN Note(st, "subscriptionManager.onTimeout", "-")
  ELSE Note([st EXCEPT !.subscribing = TRUE], "subscriptionManager.onTimeout", "-")

Subscribe(st) ==
  IF st.subscribing
  THEN st
  ELSE Note([st EXCEPT !.subscribing = TRUE, !.retryMode = FALSE], "subscribe", "-")

\* what a handler awaits after its first part: nothing ("done"), its listeners
\* ("await"), or the 10 ms before it resubscribes ("sleep")
Step(st, phase) == [st |-> st, phase |-> phase]

OnDisconnected_StreamOnly(st, h, isTimeout) ==
  IF h \in st.connected
  THEN Step(Note(st, "onStreamClosed", h), "await")
  ELSE Step(st, "done")

OnDisconnected(st, h, isTimeout) ==
  IF h \in st.connected
  THEN IF IsOnlyActiveInstance(st, h)
       THEN Step(Note(IF isTimeout THEN st ELSE SmOnDisconnected(st), "onDisconnected", h),
                 "await")
       ELSE Step(Note(st, "onStreamClosed", h), "await")
  ELSE Step(st, "done")

SessionAccepted(session) == session \in {"none", "own"}

OnAuthenticated(st, h, session) ==
  LET st1 == ResetDisconnectTimer(st, h)
  IN IF SessionAccepted(session)
     THEN CancelSubscribe(Note([st1 EXCEPT !.connected = @ \cup {h}], "onConnected", h))
     ELSE st1

ShouldResubscribe_Always(st, h, authd) == TRUE

ShouldResubscribe(st, h, authd) ==
  /\ st.timers[h].exists
  /\ authd
  /\ (st.retryMode \/ ~st.subscribing)

OnStatus(st, h, authd) ==
  IF h \notin st.connected
  THEN IF ShouldResubscribe(st, h, authd)
       THEN Step(CancelSubscribe(st), "sleep")
       ELSE Step(st, "done")
  ELSE Step(Note(ResetDisconnectTimer(st, h), "onBrokerConnectionStatusChanged", h), "done")

\* a handler runs up to its first await
Begin(st, e) ==
  CASE e.kind = "authenticated" -> Step(OnAuthenticated(st, e.host, e.session), "done")
    [] e.kind = "disconnected" -> OnDisconnected(CancelDisconnectTimer(st, e.host), e.host, FALSE)
    [] e.kind = "timeout" -> OnDisconnected(st, e.host, TRUE)
    [] e.kind = "status" -> OnStatus(st, e.host, e.authd)

\* a handler runs from its await to its end
Finish(st, e, phase) ==
  IF phase = "sleep"
  THEN Subscribe(st)
  ELSE [st EXCEPT !.connected = @ \ {e.host}]

\* _callAccountEvents: the events at the head of the queue are handled until one
\* has to wait
RECURSIVE Drain(_)
Drain(st) ==
  IF st.queue = << >>
  THEN [st EXCEPT !.phase = "none"]
  ELSE LET r == Begin(st, Head(st.queue))
       IN IF r.phase = "done"
          THEN Drain([r.st EXCEPT !.queue = Tail(@)])
          ELSE [r.st EXCEPT !.phase = r.phase]

\* queueEvent / queuePacket with a sequence number
Enqueue(st, e) ==
  IF st.queue = << >>
  THEN Drain([st EXCEPT !.queue = <<e>>])
  ELSE [st EXCEPT !.queue = Append(@, e)]

\* queuePacket without a sequence number
ProcessNow(st, e) ==
  LET r == Begin(st, e)
  IN IF r.phase = "done"
     THEN r.st
     ELSE [r.st EXCEPT !.imm = @ \cup {[event |-> e, phase |-> r.phase]}]

SetStreams(st) ==
  /\ connectedHosts' = st.connected
  /\ statusTimers' = st.timers
  /\ streamQueue' = st.queue
  /\ headPhase' = st.phase
  /\ immediateHandlers' = st.imm
  /\ subscribing' = st.subscribing
  /\ disconnectedRetryMode' = st.retryMode
  /\ notes' = st.notes
  /\ accountCancelled' = st.cancelled

Unfinished == Len(streamQueue) + Cardinality(immediateHandlers)

\* a synchronization packet of the three kinds arrives
StreamPacket(e, sequenced) ==
  /\ Unfinished < Cardinality(HandlerIds)
  /\ SetStreams(IF sequenced THEN Enqueue(Streams, e) ELSE ProcessNow(Streams, e))
  /\ UNCHANGED <<rpcVars, evVars, thVars, cnVars, rtVars, lsVars, xtVars>>

AuthenticatedPacket(h, session, sequenced) ==
  StreamPacket(StreamEvent("authenticated", h, session, FALSE, FALSE), sequenced)

DisconnectedPacket(h, sequenced) ==
  StreamPacket(StreamEvent("disconnected", h, "none", FALSE, FALSE), sequenced)

StatusPacket(h, authd, sequenced) ==
  StreamPacket(StreamEvent("status", h, "none", authd, FALSE), sequenced)

\* the silence timer of the stream fires
DisconnectTimerFires(h) ==
  /\ statusTimers[h].left = 0
  /\ Unfinished < Cardinality(HandlerIds)
  /\ LET alone == IsOnlyActiveInstance(Streams, h)
         st1 == [Streams EXCEPT !.timers[h].left = -1]
         st2 == IF alone THEN SmOnTimeout(st1) ELSE st1
     IN SetStreams(Enqueue(st2, StreamEvent("timeout", h, "none", FALSE, alone)))
  /\ UNCHANGED <<rpcVars, evVars, thVars, cnVars, rtVars, lsVars, xtVars>>

\* what the handler at the head of the queue awaits is over
HeadSettles ==
  /\ streamQueue # << >>
  /\ SetStreams(Drain([Finish(Streams, Head(streamQueue), headPhase)
                         EXCEPT !.queue = Tail(@)]))
  /\ UNCHANGED <<rpcVars, evVars, thVars, cnVars, rtVars, lsVars, xtVars>>

\* what a handler outside the queue awaits is over
ImmediateSettles(x) ==
  /\ x \in immediateHandlers
  /\ SetStreams(Finish([Streams EXCEPT !.imm = @ \ {x}], x.event, x.phase))
  /\ UNCHANGED <<rpcVars, evVars, thVars, cnVars, rtVars, lsVars, xtVars>>

\* the subscribe task of the account ends without an 'authenticated' packet
SubscribeTaskEnds ==
  /\ subscribing
  /\ SetStreams([Streams EXCEPT !.subscribing = FALSE, !.retryMode = FALSE])
  /\ UNCHANGED <<rpcVars, evVars, thVars, cnVars, rtVars, lsVars, xtVars>>

\* unsubscribe(accountId): the subscription of the account is cancelled; the
\* request that follows leaves _connectedHosts and _statusTimers as they are
Unsubscribe ==
  /\ ~accountCancelled
  /\ SetStreams(CancelAccount(Streams))
  /\ UNCHANGED <<rpcVars, evVars, thVars, cnVars, rtVars, lsVars, xtVars>>

TickStreams ==
  /\ \E h \in Hosts : statusTimers[h].left > 0
  /\ SetStreams([Streams EXCEPT !.timers =
                   [h \in Hosts |-> [@[h] EXCEPT !.left = IF @ > 0 THEN @ - 1 ELSE @]]])
  /\ UNCHANGED <<rpcVars, evVars, thVars, cnVars, rtVars, lsVars, xtVars>>

InitStreams ==
  /\ RpcIdle
  /\ EvIdle
  /\ ThIdle
  /\ StIdle
  /\ CnIdle
  /\ RtIdle
  /\ LsIdle
  /\ XtIdle

NextStreams ==
  \/ \E h \in Hosts, session \in Sessions, sequenced \in BOOLEAN :
       AuthenticatedPacket(h, session, sequenced)
  \/ \E h \in Hosts, sequenced \in BOOLEAN : DisconnectedPacket(h, sequenced)
  \/ \E h \in Hosts, authd \in BOOLEAN, sequenced \in BOOLEAN : StatusPacket(h, authd, sequenced)
  \/ \E h \in Hosts : DisconnectTimerFires(h)
  \/ HeadSettles
  \/ \E x \in immediateHandlers : ImmediateSettles(x)
  \/ SubscribeTaskEnds
  \/ Unsubscribe
  \/ TickStreams

SpecStreams == InitStreams /\ [][NextStreams]_vars

(***************************************************************************)
(* Connection lifecycle: connect(), the socket events, the reconnect loop  *)
(* and close().  The socket is created with reconnection: true,            *)
(* reconnectionAttempts: Infinity, reconnectionDelay: 1000 and             *)
(* reconnectionDelayMax: 5000: after a failed attempt the socket library   *)
(* waits and tries again by itself, doubling its delay up to the maximum.  *)
(* Delays are in seconds.                                                  *)
(***************************************************************************)

ReconnectionDelay == 1
ReconnectionDelayMax == 5
TryReconnectDelay == 1

\* the delay the socket library waits after one more failed attempt
NextDelay(wait) ==
  IF wait = 0 THEN ReconnectionDelay ELSE Min(2 * wait, ReconnectionDelayMax)

NoneNotified == [a \in ConnAccounts |-> 0]

\* the socket of inst is no longer connected or connecting: the library's
\* pending retry is dropped
SocketDown(inst, state) ==
  [inst EXCEPT !.socket = state, !.auto = FALSE, !.wait = 0, !.notified = NoneNotified]

\* the loop condition of _reconnect and the test inside the _tryReconnect timer
ShouldReconnect(inst) ==
  inst.socket # "connected" /\ ~inst.isReconnecting /\ inst.connected

Reconnect_Never(inst, listed) == inst

\* _reconnect(id): the instance is looked up in the list; the loop starts its
\* first wait when the condition holds (one loop per instance is followed)
Reconnect(inst, listed) ==
  IF listed /\ ShouldReconnect(inst) /\ inst.loop = "none"
  THEN [inst EXCEPT !.loop = "timer"]
  ELSE inst

\* the 'disconnect' handler
OnSocketDisconnect(inst, listed) ==
  Reconnect([inst EXCEPT !.isReconnecting = FALSE], listed)

\* socket.close() on a socket object: a connected socket emits 'disconnect'
SocketClose(inst, listed) ==
  IF inst.socket = "connected"
  THEN OnSocketDisconnect(SocketDown(inst, "closed"), listed)
  ELSE SocketDown(inst, "closed")

\* the accounts _fireReconnected(i) collects: those of the reconnect
\* listeners whose account is assigned to instance i
ReconnectAccounts_AllAssigned(i, byAccounts, listeners) ==
  {a \in ConnAccounts : byAccounts[a] = i}

ReconnectAccounts(i, byAccounts, listeners) ==
  {a \in listeners : byAccounts[a] = i}

\* _fireReconnected(i): subscriptionManager.onReconnected and
\* packetOrderer.onReconnected get the collected accounts and each collected
\* listener is notified
FireReconnected(inst, i, byAccounts, listeners) ==
  [inst EXCEPT !.notified = [a \in ConnAccounts |->
     IF a \in ReconnectAccounts(i, byAccounts, listeners) THEN @[a] + 1 ELSE @[a]]]

RejectedByClose_None(inst) == {}

\* the requests the close() callback of one instance rejects with
\* 'MetaApi connection closed'; socket.close() on a missing socket throws
\* before the rejections
RejectedByClose(inst) ==
  IF inst.connected /\ inst.socket # "null" THEN inst.requestResolves ELSE {}

\* the close() callback of one listed instance
CloseInstance(inst) ==
  IF ~inst.connected THEN inst
  ELSE IF inst.socket = "null" THEN [inst EXCEPT !.connected = FALSE]
  ELSE [SocketClose([inst EXCEPT !.connected = FALSE], TRUE)
          EXCEPT !.requestResolves = @ \ RejectedByClose(inst)]

\* close() on the client state st
CloseAll(st) ==
  [st EXCEPT !.instances = [i \in InstanceIds |->
                  IF i \in st.list THEN CloseInstance(st.instances[i]) ELSE st.instances[i]],
             !.outcomes = [a \in ConnAccounts |->
                  IF \E i \in st.list : a \in RejectedByClose(st.instances[i])
                  THEN [st.outcomes[a] EXCEPT !.state = "closed"] ELSE st.outcomes[a]],
             !.listeners = {},
             !.byAccounts = [a \in ConnAccounts |-> NoInstance],
             !.list = {}]

\* the client state close() works on
Client ==
  [instances |-> instances, outcomes |-> outcomes, listeners |-> synchronizationListeners,
   byAccounts |-> accountInstances, list |-> socketInstances]

SetClient(st) ==
  /\ instances' = st.instances
  /\ outcomes' = st.outcomes
  /\ synchronizationListeners' = st.listeners
  /\ accountInstances' = st.byAccounts
  /\ socketInstances' = st.list

cnRest == <<socketInstances, accountInstances, synchronizationListeners, reconnectListeners,
            outcomes, closeCalled>>

\* connect(): a new instance is created, marked connected and listed, and
\* the server url is awaited
Connect(i) ==
  /\ ~closeCalled
  /\ i = Cardinality(socketInstances)
  /\ ~instances[i].created
  /\ instances' = [instances EXCEPT ![i] =
       [NoSocketInstance EXCEPT !.created = TRUE, !.connected = TRUE, !.connecting = TRUE]]
  /\ socketInstances' = socketInstances \cup {i}
  /\ UNCHANGED <<accountInstances, synchronizationListeners, reconnectListeners, outcomes,
                 closeCalled>>
  /\ UNCHANGED <<rpcVars, evVars, thVars, stVars, rtVars, lsVars, xtVars>>

\* connect() resumes with the server url: the socket is created and starts
\* connecting
ServerUrlResolved(i) ==
  /\ instances[i].connecting
  /\ instances' = [instances EXCEPT ![i].connecting = FALSE, ![i].socket = "connecting"]
  /\ UNCHANGED cnRest
  /\ UNCHANGED <<rpcVars, evVars, thVars, stVars, rtVars, lsVars, xtVars>>

\* the 'connect' handler: the connect() promise is resolved the first time,
\* _fireReconnected runs every other time; a socket that connects after
\* close() is closed again
SocketConnects(i) ==
  /\ instances[i].socket \in {"connecting", "reopened"}
  /\ LET inst == instances[i]
         up == [inst EXCEPT !.socket = "connected", !.isReconnecting = FALSE, !.wait = 0,
                            !.resolved = IF @ = "no" THEN "resolved" ELSE @]
         fired == IF inst.resolved = "no" THEN up
                  ELSE FireReconnected(up, i, accountInstances, reconnectListeners)
     IN  instances' = [instances EXCEPT ![i] =
           IF fired.connected THEN fired ELSE SocketClose(fired, i \in socketInstances)]
  /\ UNCHANGED cnRest
  /\ UNCHANGED <<rpcVars, evVars, thVars, stVars, rtVars, lsVars, xtVars>>

\* the 'reconnect' handler: the socket library has reopened the connection
\* on one of its own attempts; the socket's 'connect' event follows
ManagerReconnects(i) ==
  /\ instances[i].socket = "connecting"
  /\ instances[i].auto
  /\ instances' = [instances EXCEPT ![i] =
       FireReconnected([@ EXCEPT !.socket = "reopened", !.isReconnecting = FALSE],
                       i, accountInstances, reconnectListeners)]
  /\ UNCHANGED cnRest
  /\ UNCHANGED <<rpcVars, evVars, thVars, stVars, rtVars, lsVars, xtVars>>

\* the 'connect_error' and 'connect_timeout' handlers; the socket library
\* waits before its next attempt
SocketConnectError(i) ==
  /\ instances[i].socket = "connecting"
  /\ instances' = [instances EXCEPT ![i].isReconnecting = FALSE,
                                    ![i].resolved = IF @ = "no" THEN "rejected" ELSE @,
                                    ![i].socket = "waiting",
                                    ![i].wait = NextDelay(@)]
  /\ UNCHANGED cnRest
  /\ UNCHANGED <<rpcVars, evVars, thVars, stVars, rtVars, lsVars, xtVars>>

\* the socket library's delay is over: its next attempt starts
LibraryRetries(i) ==
  /\ instances[i].socket = "waiting"
  /\ instances' = [instances EXCEPT ![i].socket = "connecting", ![i].auto = TRUE]
  /\ UNCHANGED cnRest
  /\ UNCHANGED <<rpcVars, evVars, thVars, stVars, rtVars, lsVars, xtVars>>

\* the connection drops and the 'disconnect' handler runs; the socket library
\* reconnects by itself or not, depending on the reason
SocketDisconnects(i, retrying) ==
  /\ instances[i].socket = "connected"
  /\ instances' = [instances EXCEPT ![i] =
       OnSocketDisconnect(
         IF retrying
         THEN [SocketDown(@, "waiting") EXCEPT !.wait = ReconnectionDelay]
         ELSE SocketDown(@, "closed"),
         i \in socketInstances)]
  /\ UNCHANGED cnRest
  /\ UNCHANGED <<rpcVars, evVars, thVars, stVars, rtVars, lsVars, xtVars>>

\* the 'error' handler
SocketError(i) ==
  /\ instances[i].socket \in {"connecting", "waiting", "reopened", "connected"}
  /\ instances' = [instances EXCEPT ![i] =
       Reconnect([@ EXCEPT !.isReconnecting = FALSE], i \in socketInstances)]
  /\ UNCHANGED cnRest
  /\ UNCHANGED <<rpcVars, evVars, thVars, stVars, rtVars, lsVars, xtVars>>

\* the timer of _tryReconnect fires: when the condition still holds the
\* socket is closed, the instance is marked reconnecting and the server url
\* is awaited; otherwise the wait resolves and the loop ends
TryReconnect(i) ==
  /\ instances[i].loop = "timer"
  /\ instances' = [instances EXCEPT ![i] =
       IF ShouldReconnect(@)
       THEN [SocketDown(@, "closed") EXCEPT !.isReconnecting = TRUE, !.loop = "url"]
       ELSE [@ EXCEPT !.loop = "none"]]
  /\ UNCHANGED cnRest
  /\ UNCHANGED <<rpcVars, evVars, thVars, stVars, rtVars, lsVars, xtVars>>

\* _tryReconnect resumes with the server url: socket.connect(); the loop
\* condition then fails on isReconnecting
ReconnectUrlResolved(i) ==
  /\ instances[i].loop = "url"
  /\ instances' = [instances EXCEPT ![i].socket = "connecting", ![i].loop = "none"]
  /\ UNCHANGED cnRest
  /\ UNCHANGED <<rpcVars, evVars, thVars, stVars, rtVars, lsVars, xtVars>>

\* the server url cannot be fetched: the catch branch of _tryReconnect, then
\* the loop condition again
ReconnectUrlFails(i) ==
  /\ instances[i].loop = "url"
  /\ LET failed == [instances[i] EXCEPT !.isReconnecting = FALSE]
     IN  instances' = [instances EXCEPT ![i] =
           [failed EXCEPT !.loop = IF ShouldReconnect(failed) THEN "timer" ELSE "none"]]
  /\ UNCHANGED cnRest
  /\ UNCHANGED <<rpcVars, evVars, thVars, stVars, rtVars, lsVars, xtVars>>

\* _rpcRequest for account a on a listed instance whose connect() promise
\* is fulfilled: the account is assigned and _makeRequest registers the
\* request (one request per account is followed)
RegisterRequest(a, i) ==
  /\ outcomes[a].state = "none"
  /\ i \in socketInstances
  /\ accountInstances[a] \in {NoInstance, i}
  /\ instances[i].connected
  /\ instances[i].resolved = "resolved"
  /\ accountInstances' = [accountInstances EXCEPT ![a] = i]
  /\ instances' = [instances EXCEPT ![i].requestResolves = @ \cup {a}]
  /\ outcomes' = [outcomes EXCEPT ![a] = [state |-> "pending", instance |-> i]]
  /\ UNCHANGED <<socketInstances, synchronizationListeners, reconnectListeners, closeCalled>>
  /\ UNCHANGED <<rpcVars, evVars, thVars, stVars, rtVars, lsVars, xtVars>>

\* the 'response' handler
ResponseArrives(a, i) ==
  /\ a \in instances[i].requestResolves
  /\ instances[i].socket = "connected"
  /\ instances' = [instances EXCEPT ![i].requestResolves = @ \ {a}]
  /\ outcomes' = [outcomes EXCEPT ![a].state = "response"]
  /\ UNCHANGED <<socketInstances, accountInstances, synchronizationListeners,
                 reconnectListeners, closeCalled>>
  /\ UNCHANGED <<rpcVars, evVars, thVars, stVars, rtVars, lsVars, xtVars>>

\* the 'processingError' handler for an UnauthorizedError: the entry is
\* deleted, _convertError calls close(), and the request is rejected with
\* the converted error
UnauthorizedError(a, i) ==
  /\ a \in instances[i].requestResolves
  /\ instances[i].socket = "connected"
  /\ LET st == [Client EXCEPT !.instances[i].requestResolves = @ \ {a}]
         after == CloseAll(st)
     IN  SetClient([after EXCEPT !.outcomes[a].state = "UnauthorizedError"])
  /\ closeCalled' = TRUE
  /\ UNCHANGED reconnectListeners
  /\ UNCHANGED <<rpcVars, evVars, thVars, stVars, rtVars, lsVars, xtVars>>

\* addSynchronizationListener
AddSynchronizationListener(a) ==
  /\ a \notin synchronizationListeners
  /\ synchronizationListeners' = synchronizationListeners \cup {a}
  /\ UNCHANGED <<socketInstances, instances, accountInstances, reconnectListeners, outcomes,
                 closeCalled>>
  /\ UNCHANGED <<rpcVars, evVars, thVars, stVars, rtVars, lsVars, xtVars>>

\* addReconnectListener
AddReconnectListener(a) ==
  /\ a \notin reconnectListeners
  /\ reconnectListeners' = reconnectListeners \cup {a}
  /\ UNCHANGED <<socketInstances, instances, accountInstances, synchronizationListeners,
                 outcomes, closeCalled>>
  /\ UNCHANGED <<rpcVars, evVars, thVars, stVars, rtVars, lsVars, xtVars>>

\* close()
Close ==
  /\ SetClient(CloseAll(Client))
  /\ closeCalled' = TRUE
  /\ UNCHANGED reconnectListeners
  /\ UNCHANGED <<rpcVars, evVars, thVars, stVars, rtVars, lsVars, xtVars>>

InitConnection ==
  /\ RpcIdle
  /\ EvIdle
  /\ ThIdle
  /\ StIdle
  /\ CnIdle
  /\ RtIdle
  /\ LsIdle
  /\ XtIdle

NextConnection ==
  \/ \E i \in InstanceIds : Connect(i)
  \/ \E i \in InstanceIds : ServerUrlResolved(i)
  \/ \E i \in InstanceIds : SocketConnects(i)
  \/ \E i \in InstanceIds : ManagerReconnects(i)
  \/ \E i \in InstanceIds : SocketConnectError(i)
  \/ \E i \in InstanceIds : LibraryRetries(i)
  \/ \E i \in InstanceIds, retrying \in BOOLEAN : SocketDisconnects(i, retrying)
  \/ \E i \in InstanceIds : SocketError(i)
  \/ \E i \in InstanceIds : TryReconnect(i)
  \/ \E i \in InstanceIds : ReconnectUrlResolved(i)
  \/ \E i \in InstanceIds : ReconnectUrlFails(i)
  \/ \E a \in ConnAccounts, i \in InstanceIds : RegisterRequest(a, i)
  \/ \E a \in ConnAccounts, i \in InstanceIds : ResponseArrives(a, i)
  \/ \E a \in ConnAccounts, i \in InstanceIds : UnauthorizedError(a, i)
  \/ \E a \in ListenerAccounts : AddSynchronizationListener(a)
  \/ \E a \in ConnAccounts : AddReconnectListener(a)
  \/ Close

SpecConnection == InitConnection /\ [][NextConnection]_vars

\* The life of one transport instance: its connection, its loss, the
\* reconnect loop and the socket library's own attempts, and close().
ReconnectInstances == {0}

NextReconnect ==
  \/ \E i \in ReconnectInstances : Connect(i)
  \/ \E i \in ReconnectInstances : ServerUrlResolved(i)
  \/ \E i \in ReconnectInstances : SocketConnects(i)
  \/ \E i \in ReconnectInstances : ManagerReconnects(i)
  \/ \E i \in ReconnectInstances : SocketConnectError(i)
  \/ \E i \in ReconnectInstances : LibraryRetries(i)
  \/ \E i \in ReconnectInstances, retrying \in BOOLEAN : SocketDisconnects(i, retrying)
  \/ \E i \in ReconnectInstances : SocketError(i)
  \/ \E i \in ReconnectInstances : TryReconnect(i)
  \/ \E i \in ReconnectInstances : ReconnectUrlResolved(i)
  \/ \E i \in ReconnectInstances : ReconnectUrlFails(i)
  \/ \E a \in ConnAccounts, i \in ReconnectInstances : RegisterRequest(a, i)
  \/ \E a \in ConnAccounts : AddReconnectListener(a)
  \/ Close

\* Timers fire and awaited promises settle; the server url is eventually
\* fetched and the server eventually accepts a connection that keeps being
\* attempted.
FairReconnect ==
  \A i \in ReconnectInstances :
    /\ WF_vars(ServerUrlResolved(i))
    /\ WF_vars(TryReconnect(i))
    /\ WF_vars(LibraryRetries(i))
    /\ SF_vars(ReconnectUrlResolved(i))
    /\ SF_vars(SocketConnects(i))

SpecReconnect == InitConnection /\ [][NextReconnect]_vars /\ FairReconnect

(***************************************************************************)
(* Routing of new accounts to transport instances (_rpcRequest up to the   *)
(* assignment, lockSocketInstance, subscribedAccountIds).  The client-wide *)
(* lock of LIMIT_ACCOUNT_SUBSCRIPTIONS_PER_USER is never set here.         *)
(***************************************************************************)

LockTypes == {"LIMIT_ACCOUNT_SUBSCRIPTIONS_PER_USER_PER_SERVER",
              "LIMIT_ACCOUNT_SUBSCRIPTIONS_PER_SERVER"}

NoLock == [type |-> "none", expired |-> FALSE, lockedAtAccounts |-> 0]

Router ==
  [locks |-> subscribeLocks, byAccounts |-> assignedInstance, hosts |-> connectedAccounts]

\* the instance list
Listed(rt) == {i \in RouteInstanceIds : i < Len(rt.locks)}

\* getAssignedAccounts(index)
GetAssignedAccounts(rt, i) == {a \in RouteAccounts : rt.byAccounts[a] = i}

\* subscribedAccountIds(index): the accounts with a connected stream that
\* are assigned to the instance
SubscribedAccountIds(rt, i) == {a \in rt.hosts : rt.byAccounts[a] = i}

Skipped_AsPerServer(rt, i) ==
  LET lock == rt.locks[i + 1]
  IN  /\ lock.type # "none"
      /\ ~lock.expired
      /\ Cardinality(SubscribedAccountIds(rt, i)) >= lock.lockedAtAccounts

\* the two `continue` tests of the routing loop
Skipped(rt, i) ==
  LET lock == rt.locks[i + 1]
      count == Cardinality(SubscribedAccountIds(rt, i))
  IN  \/ /\ lock.type = "LIMIT_ACCOUNT_SUBSCRIPTIONS_PER_USER_PER_SERVER"
         /\ (~lock.expired \/ count >= lock.lockedAtAccounts)
      \/ /\ lock.type = "LIMIT_ACCOUNT_SUBSCRIPTIONS_PER_SERVER"
         /\ ~lock.expired
         /\ count >= lock.lockedAtAccounts

\* the instances the routing loop may stop at
Eligible(rt) ==
  {i \in Listed(rt) :
     ~Skipped(rt, i) /\ Cardinality(GetAssignedAccounts(rt, i)) < MaxAccountsPerInstance}

\* the result of the routing loop: the first instance it may stop at, or
\* NoInstance
Route(rt) ==
  IF Eligible(rt) = {} THEN NoInstance
  ELSE CHOOSE i \in Eligible(rt) : \A j \in Eligible(rt) : i <= j

\* _rpcRequest for an account without an assignment: it is assigned to the
\* instance the loop stops at; when there is none, connect() lists a new
\* instance and the assignment waits for the connection
RouteRequest(a) ==
  /\ assignedInstance[a] = NoInstance
  /\ a \notin DOMAIN connecting
  /\ LET i == Route(Router)
     IN  IF i # NoInstance
         THEN /\ assignedInstance' = [assignedInstance EXCEPT ![a] = i]
              /\ UNCHANGED <<subscribeLocks, connecting>>
         ELSE /\ Len(subscribeLocks) \in RouteInstanceIds
              /\ subscribeLocks' = Append(subscribeLocks, NoLock)
              /\ connecting' = connecting @@ (a :> Len(subscribeLocks))
              /\ UNCHANGED assignedInstance
  /\ UNCHANGED connectedAccounts
  /\ UNCHANGED <<rpcVars, evVars, thVars, stVars, cnVars, lsVars, xtVars>>

Except(f, a) == [x \in DOMAIN f \ {a} |-> f[x]]

\* the index _rpcRequest stores for the account once connect() has resolved
ConnectedAssignment(rt, i) == i

\* connect() resolves for the request that created an instance: the account
\* is assigned to the index taken before the wait
ConnectResolves(a) ==
  /\ a \in DOMAIN connecting
  /\ assignedInstance' =
       [assignedInstance EXCEPT ![a] = ConnectedAssignment(Router, connecting[a])]
  /\ connecting' = Except(connecting, a)
  /\ UNCHANGED <<subscribeLocks, connectedAccounts>>
  /\ UNCHANGED <<rpcVars, evVars, thVars, stVars, cnVars, lsVars, xtVars>>

\* connect() rejects: the request fails before the assignment
ConnectRejects(a) ==
  /\ a \in DOMAIN connecting
  /\ connecting' = Except(connecting, a)
  /\ UNCHANGED <<subscribeLocks, assignedInstance, connectedAccounts>>
  /\ UNCHANGED <<rpcVars, evVars, thVars, stVars, cnVars, lsVars, xtVars>>

\* an 'authenticated' packet marks a stream of the account connected
AccountConnected(a) ==
  /\ assignedInstance[a] # NoInstance
  /\ a \notin connectedAccounts
  /\ connectedAccounts' = connectedAccounts \cup {a}
  /\ UNCHANGED <<subscribeLocks, assignedInstance, connecting>>
  /\ UNCHANGED <<rpcVars, evVars, thVars, stVars, cnVars, lsVars, xtVars>>

\* the last connected stream of the account is closed
AccountDisconnected(a) ==
  /\ a \in connectedAccounts
  /\ connectedAccounts' = connectedAccounts \ {a}
  /\ UNCHANGED <<subscribeLocks, assignedInstance, connecting>>
  /\ UNCHANGED <<rpcVars, evVars, thVars, stVars, cnVars, lsVars, xtVars>>

\* unsubscribe(a) succeeds: the assignment is deleted
AccountUnsubscribed(a) ==
  /\ assignedInstance[a] # NoInstance
  /\ assignedInstance' = [assignedInstance EXCEPT ![a] = NoInstance]
  /\ UNCHANGED <<subscribeLocks, connecting, connectedAccounts>>
  /\ UNCHANGED <<rpcVars, evVars, thVars, stVars, cnVars, lsVars, xtVars>>

\* lockSocketInstance(i, metadata) for the two per-instance lock types: an
\* instance without subscribed accounts is reconnected instead of locked
LockSocketInstance(i, type) ==
  /\ i \in Listed(Router)
  /\ LET count == Cardinality(SubscribedAccountIds(Router, i))
     IN  subscribeLocks' =
           IF count = 0 THEN subscribeLocks
           ELSE [subscribeLocks EXCEPT ![i + 1] =
                   [type |-> type, expired |-> FALSE, lockedAtAccounts |-> count]]
  /\ UNCHANGED <<assignedInstance, connecting, connectedAccounts>>
  /\ UNCHANGED <<rpcVars, evVars, thVars, stVars, cnVars, lsVars, xtVars>>

\* the recommended retry time of the lock of instance i passes
LockExpires(i) ==
  /\ i \in Listed(Router)
  /\ subscribeLocks[i + 1].type # "none"
  /\ ~subscribeLocks[i + 1].expired
  /\ subscribeLocks' = [subscribeLocks EXCEPT ![i + 1].expired = TRUE]
  /\ UNCHANGED <<assignedInstance, connecting, connectedAccounts>>
  /\ UNCHANGED <<rpcVars, evVars, thVars, stVars, cnVars, lsVars, xtVars>>

InitRouting ==
  /\ RpcIdle
  /\ EvIdle
  /\ ThIdle
  /\ StIdle
  /\ CnIdle
  /\ RtIdle
  /\ LsIdle
  /\ XtIdle

NextRouting ==
  \/ \E a \in RouteAccounts : RouteRequest(a)
  \/ \E a \in RouteAccounts : ConnectResolves(a)
  \/ \E a \in RouteAccounts : ConnectRejects(a)
  \/ \E a \in RouteAccounts : AccountConnected(a)
  \/ \E a \in RouteAccounts : AccountDisconnected(a)
  \/ \E a \in RouteAccounts : AccountUnsubscribed(a)
  \/ \E i \in RouteInstanceIds, type \in LockTypes : LockSocketInstance(i, type)
  \/ \E i \in RouteInstanceIds : LockExpires(i)

SpecRouting == InitRouting /\ [][NextRouting]_vars

-----------------------------------------------------------------------------
(* Listener notification of an 'authenticated' packet.  The packets of an  *)
(* account are processed one after another from this._eventQueues; each    *)
(* handler calls onConnected of every listener of the account in the order *)
(* they were added, wraps what the call returns in a promise with a        *)
(* rejection handler that logs, calls cancelSubscribe, and awaits the      *)
(* promises.  A listener may resolve, return a rejected promise, or throw  *)
(* before it returns anything.                                             *)

\* the positions of the for loop over the listeners that are reached: the
\* loop ends at the first listener whose onConnected throws
Reached(fails) ==
  {i \in DOMAIN SyncListeners :
     \A j \in 1..(i - 1) : fails[SyncListeners[j]] # "throws"}

\* the for loop was left by an exception
Thrown(fails) == \E i \in Reached(fails) : fails[SyncListeners[i]] = "throws"

Listening == [fails |-> listenerFails, queue |-> packetQueue, calls |-> onConnectedCalls,
              unsettled |-> unsettled, cancelled |-> cancelSubscribeCalls,
              handled |-> handledPackets]

\* _processSynchronizationPacket of an 'authenticated' packet up to its
\* first await, or to its catch block when a listener has thrown
ProcessAuthenticated(ls, p) ==
  LET called == {[listener |-> SyncListeners[i], packet |-> p] : i \in Reached(ls.fails)}
  IN IF Thrown(ls.fails)
     THEN [ls EXCEPT !.calls = @ \cup called]
     ELSE [ls EXCEPT !.calls = @ \cup called,
                     !.unsettled = @ \cup called,
                     !.cancelled = @ \cup {p}]

\* _callAccountEvents up to its first await: the head of the queue is called
CallPacketEvents(ls) ==
  IF ls.queue = << >> THEN ls ELSE ProcessAuthenticated(ls, Head(ls.queue))

SetListening(ls) ==
  /\ packetQueue' = ls.queue
  /\ onConnectedCalls' = ls.calls
  /\ unsettled' = ls.unsettled
  /\ cancelSubscribeCalls' = ls.cancelled
  /\ handledPackets' = ls.handled
  /\ UNCHANGED listenerFails

\* queuePacket for an 'authenticated' packet with a sequence number
AuthenticatedArrives(p) ==
  /\ p \notin handledPackets
  /\ \A i \in DOMAIN packetQueue : packetQueue[i] # p
  /\ \A q \in AuthPackets : q < p =>
       q \in handledPackets \/ \E i \in DOMAIN packetQueue : packetQueue[i] = q
  /\ IF packetQueue = << >>
     THEN SetListening(CallPacketEvents([Listening EXCEPT !.queue = <<p>>]))
     ELSE SetListening([Listening EXCEPT !.queue = Append(@, p)])
  /\ UNCHANGED <<rpcVars, evVars, thVars, stVars, cnVars, rtVars, xtVars>>

\* the promise listener l returned for packet p settles; a rejection is
\* caught by the handler attached to it and logged
OnConnectedSettles(l, p) ==
  /\ [listener |-> l, packet |-> p] \in unsettled
  /\ unsettled' = unsettled \ {[listener |-> l, packet |-> p]}
  /\ UNCHANGED <<listenerFails, packetQueue, onConnectedCalls, cancelSubscribeCalls,
                 handledPackets>>
  /\ UNCHANGED <<rpcVars, evVars, thVars, stVars, cnVars, rtVars, xtVars>>

\* the handler of the packet at the head of the queue has nothing left to
\* await (Promise.all is settled, or the catch block has logged the
\* exception): it returns, _callAccountEvents shifts the queue and calls the
\* next event
PacketHandlerReturns ==
  /\ packetQueue # << >>
  /\ \A c \in unsettled : c.packet # Head(packetQueue)
  /\ SetListening(CallPacketEvents([Listening EXCEPT
                                      !.queue = Tail(@),
                                      !.handled = @ \cup {Head(packetQueue)}]))
  /\ UNCHANGED <<rpcVars, evVars, thVars, stVars, cnVars, rtVars, xtVars>>

InitListeners ==
  /\ RpcIdle
  /\ EvIdle
  /\ ThIdle
  /\ StIdle
  /\ CnIdle
  /\ RtIdle
  /\ XtIdle
  /\ listenerFails \in [ListenerIds -> FailureModes]
  /\ packetQueue = << >>
  /\ onConnectedCalls = {}
  /\ unsettled = {}
  /\ cancelSubscribeCalls = {}
  /\ handledPackets = {}

NextListeners ==
  \/ \E p \in AuthPackets : AuthenticatedArrives(p)
  \/ \E l \in ListenerIds, p \in AuthPackets : OnConnectedSettles(l, p)
  \/ PacketHandlerReturns

SpecListeners == InitListeners /\ [][NextListeners]_vars

-----------------------------------------------------------------------------
(* Synchronization flags: what _processSynchronizationPacket does with     *)
(* 'synchronizationStarted' and 'accountInformation' packets of one        *)
(* account.  The packets of an account are handled one at a time           *)
(* (sequential event processing); the listeners do not fail.  A step ends  *)
(* where the handler awaits a listener.                                    *)

\* data.positionsUpdated !== undefined ? data.positionsUpdated : true
FlagValue_AbsentIsFalse(flag) == flag = "true"

FlagValue(flag) == flag # "false"

\* the record 'synchronizationStarted' stores for its synchronization id
StoredFlags(positionsUpdated, ordersUpdated) ==
  [recorded |-> TRUE,
   positionsUpdated |-> FlagValue(positionsUpdated),
   ordersUpdated |-> FlagValue(ordersUpdated)]

\* what a listener is called with after its onAccountInformationUpdated has
\* returned: onPositionsSynchronized if the record of the packet's id says the
\* positions were not updated
AfterAccountInformation(flags) ==
  IF flags.recorded /\ ~flags.positionsUpdated THEN "onPositionsSynchronized"
  ELSE IF flags.recorded /\ ~flags.ordersUpdated THEN "onPendingOrdersSynchronized"
  ELSE "none"

\* what a listener is called with after its onPositionsSynchronized has
\* returned; reading ordersUpdated of a record that is gone is a TypeError,
\* which the catch of the listener's promise logs
AfterPositionsSynchronized(flags) ==
  IF flags.recorded /\ ~flags.ordersUpdated THEN "onPendingOrdersSynchronized"
  ELSE "none"

\* the handler is past Promise.all: every listener's promise has settled
AllSettled(aw) == \A l \in FlagListenerIds : aw[l] = "none"

\* delete this._synchronizationFlags[data.synchronizationId], after Promise.all
Finished(aw, id) ==
  /\ infoPacket' = IF AllSettled(aw) THEN NoPacket ELSE id
  /\ synchronizationFlags' =
       IF AllSettled(aw) THEN [synchronizationFlags EXCEPT ![id] = NoFlags]
       ELSE synchronizationFlags

\* addSynchronizationListener / removeSynchronizationListener between packets
SetFlagListeners(ls) ==
  /\ infoPacket = NoPacket
  /\ ls # flagListeners
  /\ flagListeners' = ls
  /\ UNCHANGED <<synchronizationFlags, startedPackets, infoPacket, awaited, delivered>>
  /\ UNCHANGED <<rpcVars, evVars, thVars, stVars, cnVars, rtVars, lsVars, dbVars>>

\* a 'synchronizationStarted' packet: the flags are recorded, every listener
\* receives onSynchronizationStarted
SynchronizationStarted(id, positionsUpdated, ordersUpdated) ==
  /\ infoPacket = NoPacket
  /\ synchronizationFlags' =
       [synchronizationFlags EXCEPT ![id] = StoredFlags(positionsUpdated, ordersUpdated)]
  /\ startedPackets' =
       [startedPackets EXCEPT ![id] = [positionsUpdated |-> positionsUpdated,
                                       ordersUpdated |-> ordersUpdated]]
  /\ delivered' = [l \in FlagListenerIds |->
                     IF l \in flagListeners THEN <<"onSynchronizationStarted">> ELSE << >>]
  /\ UNCHANGED <<flagListeners, infoPacket, awaited>>
  /\ UNCHANGED <<rpcVars, evVars, thVars, stVars, cnVars, rtVars, lsVars, dbVars>>

\* an 'accountInformation' packet: without data.accountInformation nothing is
\* done; with it every listener receives onAccountInformationUpdated and the
\* handler awaits them
AccountInformation(id, hasInformation) ==
  /\ infoPacket = NoPacket
  /\ LET aw == [l \in FlagListenerIds |->
                  IF hasInformation /\ l \in flagListeners
                  THEN "onAccountInformationUpdated" ELSE "none"]
     IN /\ awaited' = aw
        /\ delivered' = [l \in FlagListenerIds |->
                           IF aw[l] = "none" THEN << >> ELSE <<aw[l]>>]
        /\ IF hasInformation
           THEN Finished(aw, id)
           ELSE UNCHANGED <<infoPacket, synchronizationFlags>>
  /\ UNCHANGED <<startedPackets, flagListeners>>
  /\ UNCHANGED <<rpcVars, evVars, thVars, stVars, cnVars, rtVars, lsVars, dbVars>>

\* the call the handler awaits for listener l returns
ListenerReturns(l) ==
  /\ infoPacket # NoPacket
  /\ awaited[l] # "none"
  /\ LET flags == synchronizationFlags[infoPacket]
         next == IF awaited[l] = "onAccountInformationUpdated"
                 THEN AfterAccountInformation(flags)
                 ELSE IF awaited[l] = "onPositionsSynchronized"
                 THEN AfterPositionsSynchronized(flags)
                 ELSE "none"
         aw == [awaited EXCEPT ![l] = next]
     IN /\ awaited' = aw
        /\ delivered' = IF next = "none" THEN delivered
                        ELSE [delivered EXCEPT ![l] = Append(@, next)]
        /\ Finished(aw, infoPacket)
  /\ UNCHANGED <<startedPackets, flagListeners>>
  /\ UNCHANGED <<rpcVars, evVars, thVars, stVars, cnVars, rtVars, lsVars, dbVars>>

\* _fireReconnected for the account's socket instance: the records of the
\* account are deleted
DropFlagsOnReconnect ==
  /\ \E id \in FlagSyncIds : synchronizationFlags[id].recorded
  /\ synchronizationFlags' = [id \in FlagSyncIds |-> NoFlags]
  /\ UNCHANGED <<startedPackets, flagListeners, infoPacket, awaited, delivered>>
  /\ UNCHANGED <<rpcVars, evVars, thVars, stVars, cnVars, rtVars, lsVars, dbVars>>

InitFlags ==
  /\ RpcIdle
  /\ EvIdle
  /\ ThIdle
  /\ StIdle
  /\ CnIdle
  /\ RtIdle
  /\ LsIdle
  /\ SfIdle
  /\ DbIdle

NextFlags ==
  \/ \E ls \in SUBSET FlagListenerIds : SetFlagListeners(ls)
  \/ \E id \in FlagSyncIds, p \in PacketFlags, o \in PacketFlags :
       SynchronizationStarted(id, p, o)
  \/ \E id \in FlagSyncIds, hasInformation \in BOOLEAN :
       AccountInformation(id, hasInformation)
  \/ \E l \in FlagListenerIds : ListenerReturns(l)
  \/ DropFlagsOnReconnect

SpecFlags == InitFlags /\ [][NextFlags]_vars

-----------------------------------------------------------------------------
(* Dashboard server: the express routes of server.js with the session of   *)
(* express-session.  A client is a browser with its session cookie; the    *)
(* handler of GET /dashboard/:slug answers after it has awaited MetaApi.   *)

\* the user names a login form may carry: the two users, a key every object
\* inherits, and a name that is no key at all
Usernames == {"marco-sabelli", "alessio-gallina", "constructor", "mallory"}
Passwords == {"marco123", "alessio123", "wrong"}
Slugs == {"marco-sabelli", "alessio-gallina", "mallory"}
Undefined == "undefined"

\* USERS[username]: the password of a user, the inherited function for
\* 'constructor', undefined otherwise
USERS(username) ==
  CASE username = "marco-sabelli" -> "marco123"
    [] username = "alessio-gallina" -> "alessio123"
    [] username = "constructor" -> "[Function: Object]"
    [] OTHER -> Undefined

\* ACCOUNTS[slug]?.metaapiAccountId || null
ACCOUNTS(slug) ==
  CASE slug = "marco-sabelli" -> "ACCOUNT_ID_MARCO"
    [] slug = "alessio-gallina" -> "ACCOUNT_ID_ALESSIO"
    [] OTHER -> "null"

LoginAccepted_AnyPassword(username, password) == USERS(username) # Undefined

\* POST /login: neither `!USERS[username]` nor `USERS[username] !== password`
LoginAccepted(username, password) ==
  USERS(username) # Undefined /\ USERS(username) = password

\* requireAuth: next() is called
RequireAuth(userSlug) == userSlug # NoUser

\* GET /, GET /login, GET /healthz: answered without looking at the session
PublicRoutes == {"GET /", "GET /login", "GET /healthz"}

Public(c, route) ==
  /\ lastExchange' = Exchange(route, c, "none", "none", "none", "200", route, NoUser)
  /\ UNCHANGED <<sessionStore, inFlight>>
  /\ UNCHANGED <<rpcVars, evVars, thVars, stVars, cnVars, rtVars, lsVars, sfVars>>

\* POST /login
Login(c, username, password) ==
  /\ IF USERS(username) = Undefined
     THEN /\ lastExchange' = Exchange("POST /login", c, username, password, "none", "200",
                                      "Utente inesistente", NoUser)
          /\ UNCHANGED sessionStore
     ELSE IF ~LoginAccepted(username, password)
     THEN /\ lastExchange' = Exchange("POST /login", c, username, password, "none", "200",
                                      "Password errata", NoUser)
          /\ UNCHANGED sessionStore
     ELSE /\ sessionStore' = [sessionStore EXCEPT ![c] = username]
          /\ lastExchange' = Exchange("POST /login", c, username, password, "none", "302",
                                      "/dashboard", NoUser)
  /\ UNCHANGED inFlight
  /\ UNCHANGED <<rpcVars, evVars, thVars, stVars, cnVars, rtVars, lsVars, sfVars>>

\* GET /logout: req.session.destroy, then the redirect
Logout(c) ==
  /\ sessionStore' = [sessionStore EXCEPT ![c] = NoUser]
  /\ lastExchange' = Exchange("GET /logout", c, "none", "none", "none", "302", "/login", NoUser)
  /\ UNCHANGED inFlight
  /\ UNCHANGED <<rpcVars, evVars, thVars, stVars, cnVars, rtVars, lsVars, sfVars>>

\* GET /dashboard
Dashboard(c) ==
  /\ lastExchange' =
       IF RequireAuth(sessionStore[c])
       THEN Exchange("GET /dashboard", c, "none", "none", "none", "200", "area", NoUser)
       ELSE Exchange("GET /dashboard", c, "none", "none", "none", "302", "/login", NoUser)
  /\ UNCHANGED <<sessionStore, inFlight>>
  /\ UNCHANGED <<rpcVars, evVars, thVars, stVars, cnVars, rtVars, lsVars, sfVars>>

\* GET /dashboard/:slug up to its first await
DashboardSlug(c, slug) ==
  /\ LET me == sessionStore[c]
     IN IF ~RequireAuth(me)
        THEN /\ lastExchange' = Exchange("GET /dashboard/:slug", c, "none", "none", slug,
                                         "302", "/login", NoUser)
             /\ UNCHANGED inFlight
        ELSE IF slug # me
        THEN /\ lastExchange' = Exchange("GET /dashboard/:slug", c, "none", "none", slug,
                                         "403", "forbidden", NoUser)
             /\ UNCHANGED inFlight
        ELSE /\ inFlight' = inFlight \cup {[client |-> c, slug |-> slug]}
             /\ UNCHANGED lastExchange
  /\ UNCHANGED sessionStore
  /\ UNCHANGED <<rpcVars, evVars, thVars, stVars, cnVars, rtVars, lsVars, sfVars>>

\* GET /dashboard/:slug after MetaApi has answered or failed: the page with
\* the balance and equity of ACCOUNTS[slug], or with the error message
DashboardSlugResponds(r) ==
  /\ r \in inFlight
  /\ inFlight' = inFlight \ {r}
  /\ lastExchange' = Exchange("GET /dashboard/:slug", r.client, "none", "none", r.slug,
                              "200", "dashboard", r.slug)
  /\ UNCHANGED sessionStore
  /\ UNCHANGED <<rpcVars, evVars, thVars, stVars, cnVars, rtVars, lsVars, sfVars>>

\* GET /diag/:slug: the configuration of the slug, without requireAuth
Diag(c, slug) ==
  /\ lastExchange' = Exchange("GET /diag/:slug", c, "none", "none", slug, "200",
                              ACCOUNTS(slug), NoUser)
  /\ UNCHANGED <<sessionStore, inFlight>>
  /\ UNCHANGED <<rpcVars, evVars, thVars, stVars, cnVars, rtVars, lsVars, sfVars>>

InitDashboard ==
  /\ RpcIdle
  /\ EvIdle
  /\ ThIdle
  /\ StIdle
  /\ CnIdle
  /\ RtIdle
  /\ LsIdle
  /\ SfIdle
  /\ DbIdle

NextDashboard ==
  \/ \E c \in Clients, route \in PublicRoutes : Public(c, route)
  \/ \E c \in Clients, username \in Usernames, password \in Passwords :
       Login(c, username, password)
  \/ \E c \in Clients : Logout(c)
  \/ \E c \in Clients : Dashboard(c)
  \/ \E c \in Clients, slug \in Slugs : DashboardSlug(c, slug)
  \/ \E r \in inFlight : DashboardSlugResponds(r)
  \/ \E c \in Clients, slug \in Slugs : Diag(c, slug)

SpecDashboard == InitDashboard /\ [][NextDashboard]_vars

-----------------------------------------------------------------------------
(* Properties of the request dispatcher (checked under SpecRpc) *)

\* the calls that go through the retry loop
Retried == {c \in CallIds : calls[c].pc # "idle" /\ calls[c].type \notin {"trade", "subscribe"}}

\* an attempt of call c fails in this step
FailedNow(c) == calls'[c].failures = calls[c].failures + 1

\* call c is transmitted in this step
SentNow(c) == calls'[c].sent = calls[c].sent + 1

\* the wait of call c is over in this step
WaitOver(c) == calls[c].pc = "sleeping" /\ calls'[c].pc # "sleeping"

\* the error kinds the specification calls transient, as the errors the
\* dispatcher builds for them
TransientWire == {"NotSynchronizedError", "TimeoutError", "NotAuthenticatedError",
                  "SomeOtherError"}

\* a settled call stays as it was settled
DoneIsFinal ==
  [][\A c \in CallIds : calls[c].pc = "done" =>
        /\ calls'[c].pc = "done"
        /\ calls'[c].sent = calls[c].sent
        /\ calls'[c].outcome = calls[c].outcome
        /\ calls'[c].err = calls[c].err]_vars

\* C3: a request of type trade or subscribe is transmitted at most once per
\* call and never waits for a retry, whatever error or timeout ends it; a
\* timeout rejects it with TimeoutError after that single transmission.
C3_TradeSubscribeSentOnce ==
  \A c \in CallIds : calls[c].type \in {"trade", "subscribe"} =>
    /\ calls[c].sent <= 1
    /\ calls[c].retryCounter = 0
    /\ calls[c].pc # "sleeping"
    /\ calls[c].failures >= 1 =>
         /\ calls[c].pc = "done"
         /\ calls[c].outcome = "error"
         /\ calls[c].sent = 1

\* C3 witness: a trade the server never answered has timed out: rejected with
\* TimeoutError after one transmission
C3_Witness ==
  \E c \in CallIds :
    /\ calls[c].type = "trade"
    /\ calls[c].pc = "done"
    /\ calls[c].err = "TimeoutError"
    /\ calls[c].unanswered = 1
    /\ calls[c].sent = 1

\* C4 (as claimed): a request other than trade/subscribe is transmitted at
\* most Retries + 1 times; when a failed attempt ends it with a transient
\* error, all Retries + 1 transmissions have been made and have failed; when
\* it ends with a result, the last transmission succeeded.
C4_Claim ==
  \A c \in Retried :
    /\ calls[c].sent <= Retries + 1
    /\ (calls[c].outcome = "error" /\ calls[c].rejectAt = "failure"
        /\ calls[c].err \in {ConvertError(w) : w \in TransientWire}) =>
         /\ calls[c].sent = Retries + 1
         /\ calls[c].failures = calls[c].sent
    /\ calls[c].outcome = "ok" => calls[c].sent = calls[c].failures + 1

\* C4 witness: a request with retries left has been rejected after a single
\* transmission, the server having answered NotAuthenticatedError
C4_Witness ==
  \E c \in Retried :
    /\ calls[c].pc = "done"
    /\ calls[c].outcome = "error"
    /\ calls[c].err = ConvertError("NotAuthenticatedError")
    /\ calls[c].sent = 1
    /\ calls[c].sent < Retries + 1

\* the part of C4 the dispatcher keeps: at most Retries + 1 transmissions, an
\* error reaches the caller only when every transmission has failed, a result
\* only from the last transmission, and an error the retry loop recognises as
\* transient is thrown from the catch block only with the retries used up
RetryCountLemma ==
  \A c \in Retried :
    /\ calls[c].sent <= Retries + 1
    /\ calls[c].outcome = "error" =>
         /\ calls[c].pc = "done"
         /\ calls[c].failures = calls[c].sent
    /\ calls[c].outcome = "ok" =>
         /\ calls[c].pc = "done"
         /\ calls[c].sent = calls[c].failures + 1
    /\ (calls[c].outcome = "error" /\ calls[c].rejectAt = "failure"
        /\ calls[c].err \in {"NotSynchronizedError", "TimeoutError", "InternalError"}) =>
         /\ calls[c].retryCounter = Retries
         /\ calls[c].sent = Retries + 1

\* C5 (as claimed): a processing error of each of the four transient kinds
\* makes the dispatcher retry a non-trade, non-subscribe request that has
\* retries left: such an error is never thrown from the catch block while
\* retryCounter < Retries.
C5_Claim ==
  \A c \in Retried : \A w \in TransientWire :
    ~ /\ calls[c].pc = "done"
      /\ calls[c].rejectAt = "failure"
      /\ calls[c].err = ConvertError(w)
      /\ calls[c].retryCounter < Retries

\* C5 witness: of two requests with retries left, the one answered
\* NotSynchronizedError waits for its retry, the one answered
\* NotAuthenticatedError has been rejected from the catch block
C5_Witness ==
  \E c, d \in Retried :
    /\ calls[c].pc = "sleeping"
    /\ calls[c].err = "NotSynchronizedError"
    /\ calls[c].retryCounter = 0
    /\ calls[d].pc = "done"
    /\ calls[d].rejectAt = "failure"
    /\ calls[d].err = "NotConnectedError"
    /\ calls[d].retryCounter = 0
    /\ calls[d].failures = 1

\* C6: a TooManyRequestsError whose recommended retry time lies beyond the
\* remaining budget, or that arrives with no retries left, is rejected in the
\* step it arrives in: no wait, no further transmission.
C6_TooManyRequestsBeyondBudget ==
  [][\A c \in CallIds :
       (/\ FailedNow(c)
        /\ calls'[c].err = "TooManyRequestsError"
        /\ \/ calls'[c].retryIn > CalcRequestTime(calls[c].retryCounter)
           \/ calls[c].retryCounter >= Retries)
       => /\ calls'[c].pc = "done"
          /\ calls'[c].outcome = "error"
          /\ calls'[c].rejectAt = "failure"
          /\ calls'[c].sent = calls[c].sent
          /\ calls'[c].retryCounter = calls[c].retryCounter]_vars

\* C6 witness: a retried request rejected with TooManyRequestsError although
\* retries were left
C6_Witness ==
  \E c \in Retried :
    /\ calls[c].pc = "done"
    /\ calls[c].err = "TooManyRequestsError"
    /\ calls[c].rejectAt = "failure"
    /\ calls[c].retryCounter = 1
    /\ calls[c].retryIn > CalcRequestTime(1)

\* what the end of a wait does: one retry is consumed; the request is sent
\* again when the account is still assigned
Resumed(c) ==
  /\ calls'[c].retryCounter = calls[c].retryCounter + 1
  /\ calls'[c].pc = "inflight"
  /\ SentNow(c)

\* what the end of a wait does when the account has lost its assignment: the
\* request is rejected with the error that started the wait
GivenUp(c) ==
  /\ calls'[c].pc = "done"
  /\ calls'[c].outcome = "error"
  /\ calls'[c].rejectAt = "afterWait"
  /\ calls'[c].sent = calls[c].sent

\* C7 (as claimed): a TooManyRequestsError whose recommended retry time fits
\* within the remaining budget, with retries left, makes the dispatcher wait
\* until that time, consume one retry and resend.
C7_Claim ==
  [][\A c \in Retried :
       /\ (/\ FailedNow(c)
           /\ calls'[c].err = "TooManyRequestsError"
           /\ calls'[c].retryIn <= CalcRequestTime(calls[c].retryCounter)
           /\ calls[c].retryCounter < Retries)
          => IF calls'[c].retryIn > 0
             THEN calls'[c].pc = "sleeping" /\ calls'[c].wakeIn = calls'[c].retryIn
             ELSE Resumed(c)
       /\ (WaitOver(c) /\ calls[c].err = "TooManyRequestsError")
          => calls[c].retryIn = 0 /\ Resumed(c)]_vars

\* C7 (amended): when the recommended retry time is earlier than now plus the
\* remaining budget and retries are left, the request is not sent again
\* before the recommended time; when the time has come one retry is consumed
\* and the request is sent again if the account is still assigned, and
\* rejected with the TooManyRequestsError if it is not.
C7_TooManyRequestsWithinBudget ==
  [][\A c \in Retried :
       /\ (/\ FailedNow(c)
           /\ calls'[c].err = "TooManyRequestsError"
           /\ calls'[c].retryIn < CalcRequestTime(calls[c].retryCounter)
           /\ calls[c].retryCounter < Retries)
          => IF calls'[c].retryIn > 0
             THEN /\ calls'[c].pc = "sleeping"
                  /\ calls'[c].wakeIn = calls'[c].retryIn
                  /\ calls'[c].sent = calls[c].sent
                  /\ calls'[c].retryCounter = calls[c].retryCounter
             ELSE /\ calls'[c].retryCounter = calls[c].retryCounter + 1
                  /\ IF socketInstancesByAccounts[calls[c].acct] # NoInstance
                     THEN Resumed(c) ELSE GivenUp(c)
       /\ (WaitOver(c) /\ calls[c].err = "TooManyRequestsError")
          => /\ calls[c].retryIn = 0
             /\ calls'[c].retryCounter = calls[c].retryCounter + 1
             /\ calls'[c].err = "TooManyRequestsError"
             /\ IF socketInstancesByAccounts[calls[c].acct] # NoInstance
                THEN Resumed(c) ELSE GivenUp(c)]_vars

\* C7 witness: one request is in flight again after a TooManyRequestsError
\* that consumed its first retry, and another one has waited out the
\* recommended retry time of a TooManyRequestsError and is about to resume
C7_Witness ==
  /\ \E c \in Retried :
       /\ calls[c].pc = "inflight"
       /\ calls[c].err = "TooManyRequestsError"
       /\ calls[c].retryCounter = 1
       /\ calls[c].sent = 2
       /\ calls[c].failures = 1
  /\ \E c \in Retried :
       /\ calls[c].pc = "sleeping"
       /\ calls[c].err = "TooManyRequestsError"
       /\ calls[c].wakeIn = 0
       /\ calls[c].retryIn = 0

\* C8: an attempt that fails with ValidationError, NotFoundError or TradeError
\* is the last one: the error is thrown from the catch block at once,
\* whatever the retry counter, and a request whose first attempt fails so has
\* been transmitted exactly once.
C8_NoRetryOnValidationNotFoundTrade ==
  \A c \in CallIds :
    (calls[c].failures >= 1
     /\ calls[c].err \in {"ValidationError", "NotFoundError", "TradeError"}) =>
      /\ calls[c].pc = "done"
      /\ calls[c].outcome = "error"
      /\ calls[c].rejectAt = "failure"
      /\ calls[c].sent = calls[c].failures
      /\ calls[c].retryCounter = 0 => calls[c].sent = 1

\* C8 witness: a retried request rejected with ValidationError on its first
\* attempt, and another rejected with TradeError after a retry
C8_Witness ==
  /\ \E c \in Retried :
       /\ calls[c].pc = "done"
       /\ calls[c].err = "ValidationError"
       /\ calls[c].sent = 1
  /\ \E c \in Retried :
       /\ calls[c].pc = "done"
       /\ calls[c].err = "TradeError"
       /\ calls[c].retryCounter = 1
       /\ calls[c].sent = 2

\* the requests C9 is about: an unsubscribe of their account was called while
\* their first attempt was in flight, and that attempt then failed with an
\* error the retry loop backs off on (no other attempt has failed since)
CaughtByUnsubscribe ==
  {c \in Retried :
     /\ calls[c].type # "unsubscribe"
     /\ calls[c].unsubDuring
     /\ calls[c].failures = 1
     /\ calls[c].err \in {"NotSynchronizedError", "TimeoutError", "InternalError"}}

\* C9 (as claimed): such a request is not transmitted again, and once it is
\* rejected the account has no assignment.
C9_Claim ==
  \A c \in CaughtByUnsubscribe :
    /\ calls[c].sent = 1
    /\ calls[c].pc = "done" =>
         /\ calls[c].outcome = "error"
         /\ socketInstancesByAccounts[calls[c].acct] = NoInstance

\* C9 (amended): when the wait that follows a retryable failure ends and the
\* account has no assignment (the unsubscribe request has succeeded
\* meanwhile), the request is rejected with the error that started the wait
\* and is not transmitted again; when the account is still assigned at that
\* moment the request is transmitted again.  The assignment is removed in the
\* step the unsubscribe request gets its response, and by nothing else short
\* of close().
C9_NoRetryOnceUnassigned ==
  [][/\ \A c \in CallIds :
          WaitOver(c) =>
            IF socketInstancesByAccounts[calls[c].acct] = NoInstance
            THEN /\ GivenUp(c)
                 /\ calls'[c].err = calls[c].err
                 /\ socketInstancesByAccounts'[calls[c].acct] = NoInstance
            ELSE Resumed(c)
     /\ \A c \in CallIds :
          (calls[c].type = "unsubscribe" /\ calls[c].outcome # "ok"
           /\ calls'[c].outcome = "ok")
          => socketInstancesByAccounts'[calls[c].acct] = NoInstance
     /\ \A a \in Accounts :
          (socketInstancesByAccounts[a] # NoInstance
           /\ socketInstancesByAccounts'[a] = NoInstance)
          => \/ closed'
             \/ \E c \in CallIds : /\ calls[c].type = "unsubscribe"
                                   /\ calls[c].acct = a
                                   /\ calls[c].outcome # "ok"
                                   /\ calls'[c].outcome = "ok"]_vars

\* C9 witness: the scenario of the claim has run to its end: the request
\* failed once, its wait ended after the unsubscribe had succeeded, and it was
\* rejected after a single transmission
C9_Witness ==
  \E c \in CaughtByUnsubscribe : \E u \in CallIds :
    /\ calls[u].type = "unsubscribe"
    /\ calls[u].outcome = "ok"
    /\ calls[c].pc = "done"
    /\ calls[c].rejectAt = "afterWait"
    /\ calls[c].err = "NotSynchronizedError"
    /\ calls[c].sent = 1
    /\ ~closed
    /\ socketInstancesByAccounts[calls[c].acct] = NoInstance

-----------------------------------------------------------------------------
(* Properties of the synchronization packet pipeline (checked under SpecEvents) *)

\* the sequence numbers listeners were invoked for, in the order of invocation
InvokedNumbers ==
  LET packets == SelectSeq(invoked, LAMBDA e : e.sequenceNumber # NoSeq)
  IN [i \in 1..Len(packets) |-> packets[i].sequenceNumber]

\* an event that goes through the account's queue when processing is sequential
IsQueuedEvent(e) == e.kind = "timer" \/ e.sequenceNumber # NoSeq

\* C1: with sequential event processing, as long as no gap has outlived the
\* wait window, listeners are invoked for the sequence-numbered packets in
\* strictly ascending order of sequence number, whatever the order of arrival,
\* and a packet only after every lower number has arrived.
C1_AscendingInvocation ==
  (sequentialEventProcessing /\ outOfOrder = <<>>) =>
     /\ \A i, j \in 1..Len(InvokedNumbers) :
          i < j => InvokedNumbers[i] < InvokedNumbers[j]
     /\ \A i \in 1..Len(InvokedNumbers) :
          \A n \in 1..InvokedNumbers[i] : n \in arrived.seqs

C1_Witness ==
  /\ sequentialEventProcessing
  /\ outOfOrder = <<>>
  /\ arrived.reordered
  /\ Len(InvokedNumbers) >= 3

C10_OneNotificationOneSubscribe ==
  /\ Len(subscribes) = Len(outOfOrder)
  /\ \A i \in 1..Len(outOfOrder) :
       /\ outOfOrder[i].expected < outOfOrder[i].actual
       /\ outOfOrder[i].actual <= orderer.expected
       /\ i <= Len(subscribes)
       /\ subscribes[i].accountId = outOfOrder[i].accountId
       /\ subscribes[i].instanceIndex = outOfOrder[i].instanceIndex
       /\ \A j \in 1..Len(outOfOrder) :
            i < j => outOfOrder[i].actual <= outOfOrder[j].expected

\* a notification or a subscribe is added only for a gap that has outlived the
\* wait window, and then one of each
NotifiedOnlyForTimedOutGap ==
  [][ (outOfOrder' # outOfOrder \/ subscribes' # subscribes)
        => /\ GapTimedOut(orderer)
           /\ Len(outOfOrder') = Len(outOfOrder) + 1
           /\ Len(subscribes') = Len(subscribes) + 1 ]_vars

C10_Witness ==
  /\ Len(outOfOrder) = 1
  /\ Len(subscribes) = 1
  /\ outOfOrder[1].expected = 1
  /\ outOfOrder[1].actual = 2
  /\ \E i \in 1..Len(InvokedNumbers) : InvokedNumbers[i] = 2

-----------------------------------------------------------------------------
(* Properties of the synchronization throttler (checked under SpecThrottler) *)

\* the slots in use: the accounts that hold at least one synchronization id
Occupied(th) == Cardinality(SynchronizingAccounts(th))

\* the slots released in this step, and the queued requests sent in it
FreedSlots == DOMAIN synchronizationIds \ DOMAIN synchronizationIds'
SentNowIds == sentSynchronizations' \ sentSynchronizations
SentFromQueue == Range(synchronizationQueue) \cap SentNowIds

\* synchronize() is called in this step for an account the throttler holds no
\* request of
ScheduledNowForNewAccount(id) ==
  /\ id \notin scheduled
  /\ id \in scheduled'
  /\ \A k \in accountsBySynchronizationIds : SyncKey(k).accountId # SyncKey(id).accountId

ScheduledNow(id) == id \notin scheduled /\ id \in scheduled'

\* the requests scheduled earlier for the account and instance index of id
OlderOf(id) == {k \in scheduled : k # id /\ SyncKey(k) = SyncKey(id)}

AccountsBeforeSending ==
  {SyncKey(i).accountId : i \in DOMAIN synchronizationIds' \ SentNowIds}

\* C14: the accounts synchronizing over all socket instances never exceed
\* maxConcurrentSynchronizations; a request is sent only in a step in which, before
\* the sending, they were below it; and the periodic job leaves no request waiting
\* once the accounts on the other instances have dropped far enough for one more
C14_SharedCapRespected ==
  [][ /\ otherSynchronizing' + Occupied(Throttler') <= MaxConcurrentSynchronizationsOpt
      /\ SentNowIds # {} =>
           otherSynchronizing + Cardinality(AccountsBeforeSending)
             < MaxConcurrentSynchronizationsOpt
      /\ RemoveOldSyncIdsJob =>
           \/ synchronizationQueue' = << >>
           \/ Occupied(Throttler') >= MaxConcurrentSynchronizations
           \/ otherSynchronizing' + Occupied(Throttler') >= MaxConcurrentSynchronizationsOpt
    ]_vars

\* a request waits although a slot of this throttler is free, because the other
\* instances fill the shared cap
C14_Witness ==
  /\ synchronizationQueue # << >>
  /\ Occupied(Throttler) < MaxConcurrentSynchronizations
  /\ otherSynchronizing > 0
  /\ otherSynchronizing + Occupied(Throttler) = MaxConcurrentSynchronizationsOpt

-----------------------------------------------------------------------------
(* Properties of the stream state (checked under SpecStreams) *)

Noted(what, h) == <<what, h>> \in notes'

\* the handler of event e starts in this step at the head of the queue and waits
\* for its listeners
BeganAtHead(e) ==
  /\ streamQueue' # << >>
  /\ Head(streamQueue') = e
  /\ headPhase' = "await"
  /\ streamQueue = << >> \/ HeadSettles

TimeoutEvent(h, alone) == StreamEvent("timeout", h, "none", FALSE, alone)

DisconnectedEvent(h) == StreamEvent("disconnected", h, "none", FALSE, FALSE)

\* C15 as stated: a silence timer that fires while another stream of the account and
\* instance is connected calls no subscriptionManager.onTimeout and its event gives
\* the listeners onStreamClosed, not onDisconnected; onTimeout is called, and
\* onDisconnected follows a timeout, only for the last connected stream
C15_Claim ==
  [][\A h \in Hosts :
       /\ DisconnectTimerFires(h) /\ connectedHosts \ {h} # {}
            => ~Noted("subscriptionManager.onTimeout", "-")
       /\ BeganAtHead(TimeoutEvent(h, FALSE))
            => Noted("onStreamClosed", h) /\ ~Noted("onDisconnected", h)
       /\ DisconnectTimerFires(h) /\ Noted("subscriptionManager.onTimeout", "-")
            => connectedHosts = {h}
       /\ \A alone \in BOOLEAN :
            BeganAtHead(TimeoutEvent(h, alone)) /\ Noted("onDisconnected", h) => alone
    ]_vars

\* what the silence timeout keeps: the timer callback calls onTimeout exactly when no
\* other stream is connected at that moment, and its event, when it is handled for a
\* stream still connected, gives onDisconnected if no other stream is connected then
\* and onStreamClosed otherwise, never subscriptionManager.onDisconnected
C15_TimeoutLemma ==
  [][\A h \in Hosts :
       /\ DisconnectTimerFires(h)
            => (Noted("subscriptionManager.onTimeout", "-") <=> connectedHosts \subseteq {h})
       /\ \A alone \in BOOLEAN :
            BeganAtHead(TimeoutEvent(h, alone))
              => /\ ~Noted("subscriptionManager.onDisconnected", "-")
                 /\ IF connectedHosts' = {h}
                    THEN Noted("onDisconnected", h) /\ ~Noted("onStreamClosed", h)
                    ELSE Noted("onStreamClosed", h) /\ ~Noted("onDisconnected", h)
    ]_vars

\* the timer of h1 fired while h2 was connected, and the listeners are being told
\* that h1 is disconnected
C15_Witness ==
  /\ streamQueue # << >>
  /\ Head(streamQueue) = TimeoutEvent("h1", FALSE)
  /\ headPhase = "await"
  /\ <<"onDisconnected", "h1">> \in notes

\* the handler of a 'disconnected' packet for h starts in this step and waits for its
\* listeners: the stream was connected
BeganDisconnected(h) ==
  \/ BeganAtHead(DisconnectedEvent(h))
  \/ [event |-> DisconnectedEvent(h), phase |-> "await"] \in immediateHandlers' \ immediateHandlers

\* C16: a 'disconnected' packet for a connected stream gives the listeners
\* onDisconnected and calls subscriptionManager.onDisconnected, not onTimeout, if no
\* other stream of the account and instance is connected; otherwise it gives the
\* listeners onStreamClosed only and the subscription manager is not called
C16_DisconnectedPacket ==
  [][\A h \in Hosts : BeganDisconnected(h) =>
       /\ h \in connectedHosts'
       /\ ~Noted("subscriptionManager.onTimeout", "-")
       /\ IF connectedHosts' = {h}
          THEN /\ Noted("onDisconnected", h)
               /\ Noted("subscriptionManager.onDisconnected", "-")
               /\ ~Noted("onStreamClosed", h)
          ELSE /\ Noted("onStreamClosed", h)
               /\ ~Noted("onDisconnected", h)
               /\ ~Noted("subscriptionManager.onDisconnected", "-")
    ]_vars

\* h1 is told closed by a 'disconnected' packet while h2 stays connected
C16_Witness ==
  /\ connectedHosts = {"h1", "h2"}
  /\ [event |-> DisconnectedEvent("h1"), phase |-> "await"] \in immediateHandlers
  /\ notes = {<<"onStreamClosed", "h1">>}

\* C17 as stated: an 'authenticated' packet with a sessionId other than the
\* instance's changes nothing (stream not connected, no onConnected, no
\* cancelSubscribe, no silence timer started or reset); one without a sessionId is
\* accepted
C17_Claim ==
  [][\A h \in Hosts :
       /\ AuthenticatedPacket(h, "other", FALSE)
            => /\ UNCHANGED <<connectedHosts, subscribing, disconnectedRetryMode>>
               /\ notes' = {}
               /\ statusTimers' = statusTimers
       /\ AuthenticatedPacket(h, "none", FALSE)
            => h \in connectedHosts' /\ Noted("onConnected", h)
    ]_vars

\* what holds of such a packet: it connects nothing, notifies nobody and cancels no
\* subscribe, but it starts the silence timer of the stream anew
C17_IgnoredButTimerLemma ==
  [][\A h \in Hosts :
       AuthenticatedPacket(h, "other", FALSE)
         => /\ UNCHANGED <<connectedHosts, subscribing, disconnectedRetryMode>>
            /\ notes' = {}
            /\ statusTimers'[h] = [exists |-> TRUE, left |-> SilenceTimeout]
    ]_vars

\* no stream was ever connected, yet the silence timer of h1 fired and the
\* subscription manager was told of a timeout
C17_Witness ==
  /\ connectedHosts = {}
  /\ statusTimers["h1"] = [exists |-> TRUE, left |-> -1]
  /\ ~statusTimers["h2"].exists
  /\ <<"subscriptionManager.onTimeout", "-">> \in notes

\* C18 as stated: a 'status' packet for a stream that is not connected resubscribes
\* only if no subscribe of the account and instance is pending
C18_Claim ==
  [][\A h \in Hosts, authd \in BOOLEAN :
       StatusPacket(h, authd, FALSE) /\ h \notin connectedHosts /\ subscribing
         => /\ ~Noted("cancelSubscribe", "-")
            /\ immediateHandlers' = immediateHandlers
    ]_vars

\* C18: a 'status' packet for a stream that is not connected cancels the pending
\* subscribe and resubscribes 10 ms later exactly when a silence timer was ever set
\* for the stream, the packet says authenticated, and either no subscribe is pending
\* or the pending one is in the retry mode that follows a disconnect; while another
\* subscribe is pending, status packets change nothing, and a subscribe request goes
\* out only when none is pending
C18_StatusResubscribe ==
  [][ /\ \A h \in Hosts, authd \in BOOLEAN :
           StatusPacket(h, authd, FALSE) /\ h \notin connectedHosts
             => IF statusTimers[h].exists /\ authd /\
                   (disconnectedRetryMode \/ ~subscribing)
                THEN /\ Noted("cancelSubscribe", "-")
                     /\ ~subscribing'
                     /\ \E x \in immediateHandlers' : x.phase = "sleep" /\ x.event.host = h
                ELSE /\ UNCHANGED <<subscribing, disconnectedRetryMode, immediateHandlers>>
                     /\ notes' = {}
      /\ Noted("subscribe", "-") => ~subscribing
    ]_vars

\* two status packets found no subscribe pending; the first has resubscribed, the
\* second is still about to
C18_Witness ==
  /\ connectedHosts = {}
  /\ subscribing
  /\ <<"subscribe", "-">> \in notes
  /\ \E x \in immediateHandlers : x.phase = "sleep"

(***************************************************************************)
(* Properties of close() and the reconnect loop (checked under             *)
(* SpecConnection)                                                         *)
(***************************************************************************)

\* the requests registered on instance i and not yet answered
PendingOn(i) == instances[i].requestResolves

\* C19: close() rejects every pending request of every transport instance
\* with the 'connection closed' error, leaves no request registered on any
\* instance, and leaves the account-to-instance map, the instance list and
\* the synchronization listeners empty.
C19_CloseRejectsAndClears ==
  [][Close =>
       /\ \A i \in InstanceIds : \A a \in PendingOn(i) :
            outcomes'[a] = [state |-> "closed", instance |-> i]
       /\ \A i \in InstanceIds : instances'[i].requestResolves = {}
       /\ \A a \in ConnAccounts : outcomes'[a].state # "pending"
       /\ \A a \in ConnAccounts : accountInstances'[a] = NoInstance
       /\ socketInstances' = {}
       /\ synchronizationListeners' = {}]_vars

\* close() has run while a request was pending on each of two instances, one
\* with its socket down, and both requests were rejected by it
C19_Witness ==
  /\ closeCalled
  /\ outcomes["a1"] = [state |-> "closed", instance |-> 0]
  /\ outcomes["a2"] = [state |-> "closed", instance |-> 1]
  /\ instances[1].isReconnecting

\* a connection attempt of instance i starts in this step: socketIO(...) in
\* connect() or socket.connect() in _tryReconnect
AttemptStarts(i) ==
  instances[i].socket # "connecting" /\ instances'[i].socket = "connecting"

\* C20: after close() no connection or reconnection attempt starts for an
\* instance that existed when close() was called, whatever reconnect loop or
\* reconnect timer was pending, and a timer that fires afterwards starts
\* nothing.
C20_Claim ==
  [][closeCalled => \A i \in InstanceIds : instances[i].created => ~AttemptStarts(i)]_vars

\* what does hold: the reconnect timer that fires after close() finds the
\* instance not connected and ends the loop without touching the socket
C20_PendingTimerLemma ==
  [][\A i \in InstanceIds :
       closeCalled /\ TryReconnect(i)
         => instances'[i] = [instances[i] EXCEPT !.loop = "none"]]_vars

\* close() has run and afterwards instance 0, which had been connected and
\* was awaiting the server url inside _tryReconnect, called socket.connect(),
\* and instance 1, which was awaiting the server url inside connect(),
\* created its socket
C20_Witness ==
  /\ closeCalled
  /\ instances[0].socket = "connecting"
  /\ instances[0].isReconnecting
  /\ ~instances[0].connected
  /\ instances[1].socket = "connecting"
  /\ instances[1].resolved = "no"
  /\ ~instances[1].connected

(***************************************************************************)
(* Properties of reconnection (checked under SpecReconnect and             *)
(* SpecConnection)                                                         *)
(***************************************************************************)

\* the socket of instance i is connected
Up(i) == instances[i].socket = "connected"

\* the wait that precedes the attempt instance i starts in this step: the
\* timer of _tryReconnect or the socket library's delay
WaitBefore(i) ==
  IF instances[i].loop = "url" THEN TryReconnectDelay ELSE instances[i].wait

\* instance i starts an attempt in this step after having been connected once
RetryStarts(i) ==
  /\ instances[i].resolved = "resolved"
  /\ instances[i].socket \in {"closed", "waiting"}
  /\ instances'[i].socket = "connecting"

\* nothing is pending that would bring instance i back: no attempt in
\* flight, no delay of the socket library running, no reconnect loop waiting
RetryAbandoned(i) ==
  /\ instances[i].created
  /\ instances[i].socket = "closed"
  /\ instances[i].loop = "none"

\* C21 as stated: after a disconnect or an error every reconnect attempt
\* follows the same fixed wait.
C21_Claim ==
  [][\A i \in ReconnectInstances : RetryStarts(i) => WaitBefore(i) = TryReconnectDelay]_vars

\* C21: an instance that is not connected is retried until it is connected,
\* however many attempts fail, and only close() ends the retrying; under
\* fairness it is eventually connected or closed.  The attempt the reconnect
\* loop starts follows the loop's fixed wait, the attempts after a failed one
\* follow the socket library's delay, which grows from reconnectionDelay to
\* reconnectionDelayMax.
C21_RetriesUntilConnected ==
  /\ \A i \in ReconnectInstances : instances[i].created ~> (Up(i) \/ closeCalled)
  /\ [](\A i \in ReconnectInstances : RetryAbandoned(i) => closeCalled)
  /\ [][\A i \in ReconnectInstances :
          RetryStarts(i) =>
            /\ WaitBefore(i) \in ReconnectionDelay .. ReconnectionDelayMax
            /\ instances[i].loop = "url" => WaitBefore(i) = TryReconnectDelay]_vars

\* the socket library has reopened the connection of instance 0 on its own
\* attempt, after three attempts in a row had failed
C21_Witness ==
  /\ instances[0].socket = "reopened"
  /\ instances[0].wait = 4
  /\ instances[0].resolved = "resolved"
  /\ ~closeCalled

\* the accounts with a reconnect listener that are assigned to instance i
ListeningOn(i) == {a \in reconnectListeners : accountInstances[a] = i}

\* after this step the listeners of exactly the accounts of S have been
\* notified once, and nobody else, since instance i lost its connection
NotifiedOnce(i, S) ==
  \A a \in ConnAccounts : instances'[i].notified[a] = IF a \in S THEN 1 ELSE 0

\* C22: when the socket of an instance that has not been closed connects
\* again after its first connection, each reconnect listener of an account
\* assigned to it has been notified exactly once for this reconnection and
\* no other listener has; the first connection notifies nobody.
C22_Claim ==
  [][\A i \in InstanceIds :
       SocketConnects(i) /\ instances[i].connected =>
         /\ instances[i].resolved = "resolved" => NotifiedOnce(i, ListeningOn(i))
         /\ instances[i].resolved = "no" => NotifiedOnce(i, {})]_vars

\* what does hold: a reconnection for which the 'reconnect' handler has not
\* run notifies exactly the listeners of the instance's accounts, once
C22_ConnectOnlyLemma ==
  [][\A i \in InstanceIds :
       SocketConnects(i) /\ instances[i].connected /\ instances[i].socket = "connecting" =>
         /\ instances[i].resolved = "resolved" => NotifiedOnce(i, ListeningOn(i))
         /\ instances[i].resolved = "no" => NotifiedOnce(i, {})]_vars

\* instance 0 is connected again after the socket library reconnected it,
\* and the listener of a1 has been notified twice for this reconnection,
\* while a2 on instance 1 has not been notified
C22_Witness ==
  /\ Up(0)
  /\ ~closeCalled
  /\ instances[0].resolved = "resolved"
  /\ instances[0].notified["a1"] = 2
  /\ accountInstances["a2"] = 1
  /\ "a2" \in reconnectListeners
  /\ instances[0].notified["a2"] = 0

\* the teardown of this step has rejected every request registered on an
\* instance other than the failing one of account a, has left no request
\* registered, and has cleared the assignments, the instance list and the
\* synchronization listeners
TornDown(a) ==
  /\ outcomes'[a].state = "UnauthorizedError"
  /\ \A j \in InstanceIds : \A b \in PendingOn(j) \ {a} :
       outcomes'[b] = [state |-> "closed", instance |-> j]
  /\ \A j \in InstanceIds : instances'[j].requestResolves = {}
  /\ \A j \in socketInstances : ~instances'[j].connected
  /\ \A b \in ConnAccounts : accountInstances'[b] = NoInstance
  /\ socketInstances' = {}
  /\ synchronizationListeners' = {}

\* C25: when a request fails with an UnauthorizedError processing error it
\* is rejected with UnauthorizedError and the engine is torn down: every
\* transport instance is closed, every other pending request is rejected,
\* assignments and synchronization listeners are cleared.
C25_Claim ==
  [][\A a \in ConnAccounts, i \in InstanceIds :
       UnauthorizedError(a, i) =>
         /\ TornDown(a)
         /\ \A j \in socketInstances : instances'[j].socket = "closed"]_vars

\* what does hold: the teardown closes the socket of every instance that has
\* one
C25_TeardownLemma ==
  [][\A a \in ConnAccounts, i \in InstanceIds :
       UnauthorizedError(a, i) =>
         /\ TornDown(a)
         /\ \A j \in socketInstances : instances'[j].socket \in {"closed", "null"}]_vars

\* the request of a1 failed with UnauthorizedError and the pending request of
\* a2 was rejected by the teardown, while instance 1, which was still
\* fetching its server url, has opened its socket afterwards
C25_Witness ==
  /\ closeCalled
  /\ outcomes["a1"].state = "UnauthorizedError"
  /\ outcomes["a2"] = [state |-> "closed", instance |-> 0]
  /\ instances[1].socket = "connecting"
  /\ instances[1].resolved = "no"

\* _fireReconnected runs for instance i in this step
FiresReconnected(i) ==
  /\ instances[i].connected
  /\ \/ ManagerReconnects(i)
     \/ SocketConnects(i) /\ instances[i].resolved # "no"

\* the accounts _fireReconnected hands to subscriptionManager.onReconnected
\* and packetOrderer.onReconnected in this step, which are the accounts whose
\* listener it notifies
FiredAccounts(i) ==
  {a \in ConnAccounts : instances'[i].notified[a] = instances[i].notified[a] + 1}

\* C30 as stated: when an instance reconnects, the resubscription and the
\* clearing of the packet orderer cover exactly the accounts assigned to it.
C30_Claim ==
  [][\A i \in InstanceIds :
       FiresReconnected(i) =>
         FiredAccounts(i) = {a \in ConnAccounts : accountInstances[a] = i}]_vars

\* C30: when an instance reconnects, the resubscription and the clearing of
\* the packet orderer cover exactly the accounts that are assigned to it and
\* have a reconnect listener registered, and no account of another instance.
C30_ReconnectedAccounts ==
  [][\A i \in InstanceIds :
       FiresReconnected(i) =>
         /\ FiredAccounts(i) = ListeningOn(i)
         /\ \A a \in FiredAccounts(i) : accountInstances[a] = i]_vars

\* instance 0 has reconnected with a1 and a2 assigned to it: a1, which has a
\* reconnect listener, was covered, a2, which has none, was not
C30_Witness ==
  /\ Up(0)
  /\ ~closeCalled
  /\ instances[0].resolved = "resolved"
  /\ accountInstances["a1"] = 0
  /\ accountInstances["a2"] = 0
  /\ reconnectListeners = {"a1"}
  /\ instances[0].notified = [a \in ConnAccounts |-> IF a = "a1" THEN 1 ELSE 0]

(***************************************************************************)
(* Properties of the routing of new accounts (checked under SpecRouting)   *)
(***************************************************************************)

\* the number of accounts assigned to instance i
AccountCounter(i) == Cardinality(GetAssignedAccounts(Router, i))

\* C23: no transport instance ever has more than the maximum number of
\* accounts assigned, whatever requests for new accounts are made, also
\* while a new instance is still connecting.
C23_Claim ==
  \A i \in Listed(Router) : AccountCounter(i) <= MaxAccountsPerInstance

\* what does hold: the routing loop never stops at a full instance, a new
\* instance is created exactly when the loop stops nowhere, and an instance
\* exceeds the maximum by at most the one account whose request created it
C23_RoutingLemma ==
  /\ [][\A a \in RouteAccounts :
          RouteRequest(a) =>
            /\ assignedInstance'[a] # NoInstance =>
                 /\ assignedInstance'[a] = Route(Router)
                 /\ AccountCounter(assignedInstance'[a]) < MaxAccountsPerInstance
            /\ Len(subscribeLocks') > Len(subscribeLocks) <=> Eligible(Router) = {}]_vars
  /\ [](\A i \in Listed(Router) : AccountCounter(i) <= MaxAccountsPerInstance + 1)

\* instance 0 has one account more than the maximum assigned: the account
\* whose request created it was assigned when connect() resolved, after the
\* instance had been filled by other requests
C23_Witness ==
  /\ AccountCounter(0) = MaxAccountsPerInstance + 1
  /\ connecting = << >>
  /\ Len(subscribeLocks) = 1

\* the subscribe lock of instance i
LockOf(i) == subscribeLocks[i + 1]

\* the number of subscribed accounts of instance i has not dropped below the
\* number recorded by its lock
NotDropped(i) ==
  Cardinality(SubscribedAccountIds(Router, i)) >= LockOf(i).lockedAtAccounts

\* instance i is locked, its lock has not expired and its count has not
\* dropped
LockHolds(i) == LockOf(i).type # "none" /\ ~LockOf(i).expired /\ NotDropped(i)

\* the request of account a is routed to instance i or to an earlier one in
\* this step
RoutedUpTo(a, i) ==
  assignedInstance'[a] # NoInstance /\ assignedInstance'[a] <= i

\* C24 as stated: a new account is not routed to an instance whose lock
\* holds, and an instance with room is eligible as soon as its lock has
\* expired or its count has dropped.
C24_Claim ==
  [][\A a \in RouteAccounts :
       RouteRequest(a) =>
         \A i \in Listed(Router) :
           /\ LockHolds(i) => assignedInstance'[a] # i
           /\ ~LockHolds(i) /\ AccountCounter(i) < MaxAccountsPerInstance
                => RoutedUpTo(a, i)]_vars

\* C24: a new account is never routed to an instance whose lock has not
\* expired and whose count has not dropped.  An instance with a per-server
\* lock and room is eligible as soon as the lock has expired or the count
\* has dropped; an instance with a per-user-per-server lock is skipped until
\* the lock has expired and the count has dropped as well.
C24_LockedInstanceSkipped ==
  [][\A a \in RouteAccounts :
       RouteRequest(a) =>
         \A i \in Listed(Router) :
           /\ LockHolds(i) => assignedInstance'[a] # i
           /\ LockOf(i).type = "LIMIT_ACCOUNT_SUBSCRIPTIONS_PER_USER_PER_SERVER"
                /\ (~LockOf(i).expired \/ NotDropped(i))
                => assignedInstance'[a] # i
           /\ AccountCounter(i) < MaxAccountsPerInstance
                /\ \/ LockOf(i).type = "none"
                   \/ LockOf(i).type = "LIMIT_ACCOUNT_SUBSCRIPTIONS_PER_SERVER"
                        /\ (LockOf(i).expired \/ ~NotDropped(i))
                   \/ LockOf(i).type = "LIMIT_ACCOUNT_SUBSCRIPTIONS_PER_USER_PER_SERVER"
                        /\ LockOf(i).expired /\ ~NotDropped(i)
                => RoutedUpTo(a, i)]_vars

\* instance 0 has room and a per-user-per-server lock that has expired while
\* its count has not dropped, and the request of a new account has created
\* instance 1 instead of using it
C24_Witness ==
  /\ Len(subscribeLocks) = 2
  /\ LockOf(0).type = "LIMIT_ACCOUNT_SUBSCRIPTIONS_PER_USER_PER_SERVER"
  /\ LockOf(0).expired
  /\ NotDropped(0)
  /\ AccountCounter(0) < MaxAccountsPerInstance
  /\ \E a \in DOMAIN connecting : connecting[a] = 1

-----------------------------------------------------------------------------
(***************************************************************************)
(* Properties of the pending-request map (checked under SpecRpc)           *)
(***************************************************************************)

\* the instance's requestResolves holds an entry for the request id of call c
HasPendingEntry(c) == calls[c].pending

\* the promise _rpcRequest returned for call c is settled
Completed(c) == calls[c].pc = "done"

\* C27: the pending entry of a request is removed when its response arrives,
\* when its processing error arrives, or when its timeout fires, so that a
\* request that has completed has no entry in the pending map, and the
\* caller's result is decided exactly once (a settled result never changes).
C27_Claim ==
  [][\A c \in CallIds :
       /\ Completed(c)' => ~HasPendingEntry(c)'
       /\ Completed(c) => calls'[c].outcome = calls[c].outcome]_vars

\* a 'response' or 'processingError' for call c arrives in this step, or
\* close() runs while the server has not answered it
Answered(c) == calls'[c].unanswered < calls[c].unanswered

\* what the code does: the 'response' and 'processingError' handlers and
\* close() delete the entry (a retry sent in the same step registers it
\* again), a request in flight always has one, the timeout leaves the entry
\* where it is, and a settled result never changes
C27_PendingEntryLemma ==
  [][\A c \in CallIds :
       /\ Answered(c) /\ calls'[c].pc # "inflight" => ~HasPendingEntry(c)'
       /\ calls'[c].pc = "inflight" => HasPendingEntry(c)'
       /\ RequestTimedOut(c) => HasPendingEntry(c)'
       /\ Completed(c) => Completed(c)' /\ calls'[c].outcome = calls[c].outcome]_vars

\* a request was rejected with the TimeoutError while the server never
\* answered, and its entry is still in the pending map
C27_Witness ==
  \E c \in CallIds :
    /\ Completed(c)
    /\ calls[c].err = "TimeoutError"
    /\ calls[c].outcome = "error"
    /\ HasPendingEntry(c)

-----------------------------------------------------------------------------
(***************************************************************************)
(* Properties of listener notification (checked under SpecListeners)       *)
(***************************************************************************)

\* listener l has received the onConnected event of packet p
Received(l, p) == [listener |-> l, packet |-> p] \in onConnectedCalls

\* the handler of packet p has been called
Started(p) == Received(SyncListeners[1], p)

\* C26: when a listener's handler fails (throws or returns a rejected
\* promise) while a packet is dispatched, every other listener of the account
\* still receives the event, the remaining notifications of the packet are
\* still issued (cancelSubscribe for an 'authenticated' packet), and later
\* packets of the stream are still processed.
C26_Claim ==
  /\ \A p \in handledPackets :
       /\ \A l \in ListenerIds : Received(l, p)
       /\ p \in cancelSubscribeCalls
  /\ packetQueue # << >> => Started(Head(packetQueue))

\* what the code does: a rejected promise aborts nothing; a listener that
\* throws ends the loop, so the listeners added after it do not receive the
\* event and cancelSubscribe is not called; the packets that follow are
\* processed in either case
C26_FailureLemma ==
  /\ \A p \in handledPackets :
       /\ \A i \in DOMAIN SyncListeners :
            Received(SyncListeners[i], p) <=>
              \A j \in 1..(i - 1) : listenerFails[SyncListeners[j]] # "throws"
       /\ p \in cancelSubscribeCalls <=>
            \A l \in ListenerIds : listenerFails[l] # "throws"
  /\ packetQueue # << >> => Started(Head(packetQueue))

\* the second listener throws: the first packet has been handled without
\* the third listener receiving it and without cancelSubscribe, and the
\* packet after it has been handled too
C26_Witness ==
  /\ listenerFails["l1"] = "rejects"
  /\ listenerFails["l2"] = "throws"
  /\ handledPackets = AuthPackets
  /\ Received("l1", 1)
  /\ Received("l2", 1)
  /\ ~Received("l3", 1)
  /\ 1 \notin cancelSubscribeCalls

-----------------------------------------------------------------------------
(***************************************************************************)
(* Properties of a cancelled subscription (checked under SpecStreams)      *)
(***************************************************************************)

\* the subscription manager is asked to subscribe the account in this step
\* and starts a subscribe task for it
SubscribeRequested == <<"subscribe", "-">> \in notes'

\* C29: after an account's subscription has been cancelled (connection
\* closed / unsubscribe), no further subscribe request is sent for that
\* account: not from a pending retry, not after a later 'disconnected'
\* packet, and not after a silence timeout.
C29_Claim == accountCancelled => ~subscribing

\* what the code does: the cancellation drops the pending subscribe task,
\* and neither a 'disconnected' packet nor a silence timeout starts another;
\* a subscribe task of a cancelled account starts only where the handler of
\* a 'status' packet calls ensureSubscribe
C29_CancelledLemma ==
  [][/\ Unsubscribe => ~subscribing'
     /\ accountCancelled /\ ~subscribing /\ subscribing' => SubscribeRequested]_vars

\* the account was cancelled, and the handler of a 'status' packet has
\* subscribed it again
C29_Witness ==
  /\ accountCancelled
  /\ subscribing
  /\ <<"subscribe", "-">> \in notes

-----------------------------------------------------------------------------
(***************************************************************************)
(* Properties of unsubscribe (checked under SpecRpc)                       *)
(***************************************************************************)

\* the request of unsubscribe(accountId), call c, ends in this step
UnsubscribeEnds(c) ==
  /\ calls[c].type = "unsubscribe"
  /\ calls[c].pc # "done"
  /\ calls'[c].pc = "done"

\* unsubscribe returns without error in this step: its request was answered,
\* or it failed with the NotFoundError unsubscribe ignores
UnsubscribeReturns(c) ==
  /\ UnsubscribeEnds(c)
  /\ calls'[c].outcome = "ok" \/ calls'[c].err = "NotFoundError"

\* C28: after unsubscribe(accountId) returns without error the account has
\* no entry in the account-to-instance map, while the assignments and the
\* in-flight requests of the others are unchanged.
C28_Claim ==
  [][\A c \in CallIds :
       UnsubscribeReturns(c) =>
         /\ socketInstancesByAccounts'[calls[c].acct] = NoInstance
         /\ \A a \in Accounts \ {calls[c].acct} :
              socketInstancesByAccounts'[a] = socketInstancesByAccounts[a]
         /\ \A d \in CallIds \ {c} : calls'[d] = calls[d]]_vars

\* what the code does: the entry is deleted when the request was answered;
\* when it failed with NotFoundError, unsubscribe returns with the map as it
\* was; the other requests are left alone in both cases
C28_UnsubscribeLemma ==
  [][\A c \in CallIds :
       UnsubscribeReturns(c) =>
         /\ calls'[c].outcome = "ok" =>
              socketInstancesByAccounts'[calls[c].acct] = NoInstance
         /\ calls'[c].outcome # "ok" =>
              socketInstancesByAccounts' = socketInstancesByAccounts
         /\ \A d \in CallIds \ {c} : calls'[d] = calls[d]]_vars

\* unsubscribe has returned after a NotFoundError, no other request was
\* made, and the account is still assigned to its instance
C28_Witness ==
  \E c \in CallIds :
    /\ calls[c].type = "unsubscribe"
    /\ calls[c].pc = "done"
    /\ calls[c].err = "NotFoundError"
    /\ calls[c].outcome = "error"
    /\ \A d \in CallIds \ {c} : calls[d].pc = "idle"
    /\ socketInstancesByAccounts[calls[c].acct] # NoInstance

-----------------------------------------------------------------------------
(***************************************************************************)
(* Properties of packets of other synchronizations (checked under          *)
(* SpecEvents)                                                             *)
(***************************************************************************)

\* the packet carries a synchronizationId the throttler does not list
Foreign(sid, ids) == sid # NoSyncId /\ sid \notin ids

\* the handler of the packet with sequence number seq has been called
Delivered(seq) == \E i \in DOMAIN invoked : invoked[i].sequenceNumber = seq

DeliveredUnsequenced(id) ==
  \E i \in DOMAIN invoked :
    invoked[i].kind = "packet" /\ invoked[i].sequenceNumber = NoSeq /\ invoked[i].id = id

\* the packet with sequence number seq waits in the account's queue
Queued(seq) ==
  \E i \in DOMAIN eventQueues.events : eventQueues.events[i].sequenceNumber = seq

\* C31: a synchronization packet whose synchronizationId is not among the
\* active ids of the throttler is never delivered to listeners, yet it goes
\* through the packet orderer, so that its sequence number leaves no gap for
\* later packets; a packet without a synchronizationId is always delivered.
C31_ForeignPacketFiltered ==
  [][/\ \A seq \in 1..MaxSeq, sid \in PacketSyncIds, ids \in ThrottlerIdSets :
          Synchronization(seq, PacketType(sid, ids)) =>
            /\ Foreign(sid, ids) => ~Delivered(seq)' /\ ~Queued(seq)'
            /\ Foreign(sid, ids) /\ seq >= orderer.expected =>
                 \/ Packet(seq, "noop", 0) \in orderer'.waitList
                 \/ orderer'.expected > seq
            /\ seq = orderer.expected => orderer'.expected > seq
            /\ ~Foreign(sid, ids) /\ seq >= orderer.expected =>
                 \/ Packet(seq, "data", 0) \in orderer'.waitList
                 \/ Delivered(seq)' \/ Queued(seq)'
     /\ \A id \in UnsequencedIds, sid \in PacketSyncIds, ids \in ThrottlerIdSets :
          SynchronizationUnsequenced(id, PacketType(sid, ids)) =>
            (DeliveredUnsequenced(id)' <=> ~Foreign(sid, ids))
     /\ \A i \in DOMAIN invoked' : invoked'[i].type # "noop"
     /\ \A i \in DOMAIN eventQueues'.events : eventQueues'.events[i].type # "noop"]_vars

\* packet 1 carried a foreign synchronizationId and was not delivered, and
\* packet 2, which arrived before it, has been delivered after it
C31_Witness ==
  /\ arrived.seqs = {1, 2}
  /\ arrived.reordered
  /\ ~Delivered(1)
  /\ Delivered(2)
  /\ orderer.expected = 3

\* a handler of a sequence-numbered packet of the account is running
SequencedRunning ==
  \E a \in active : a.event.kind = "packet" /\ a.event.sequenceNumber # NoSeq

\* C32: a packet without a sequence number is processed on arrival, without
\* waiting for the events queued or running for the account: its handler is
\* called in the step it arrives in, whatever the queue holds, and the queue
\* is left as it was.
C32_UnsequencedImmediate ==
  [][\A id \in UnsequencedIds :
       SynchronizationUnsequenced(id, "data") =>
         /\ DeliveredUnsequenced(id)'
         /\ invoked' = Append(invoked, Packet(NoSeq, "data", id))
         /\ \E a \in active' \ active : a.event = Packet(NoSeq, "data", id)
         /\ eventQueues' = eventQueues
         /\ \A a \in active : \E b \in active' : b = a]_vars

\* with sequential processing, the handler of an unsequenced packet runs
\* while the handler of an earlier sequence-numbered packet has not finished
\* and another event waits behind that one
C32_Witness ==
  /\ sequentialEventProcessing
  /\ SequencedRunning
  /\ Len(eventQueues.events) >= 2
  /\ \E a \in active : a.event.kind = "packet" /\ a.event.sequenceNumber = NoSeq
  /\ \E i, j \in DOMAIN invoked :
       /\ i < j
       /\ invoked[i].sequenceNumber # NoSeq
       /\ invoked[j].kind = "packet" /\ invoked[j].sequenceNumber = NoSeq
       /\ \E a \in active : a.event = invoked[i]

-----------------------------------------------------------------------------
(***************************************************************************)
(* Properties of requests during a reconnect (checked under                *)
(* SpecConnection)                                                         *)
(***************************************************************************)

\* _makeRequest hands the request of account a to the socket of instance i
\* in this step
Emitted(a, i) ==
  a \notin instances[i].requestResolves /\ a \in instances'[i].requestResolves

\* C33: a request is never transmitted on a transport instance while that
\* instance is disconnected or reconnecting: a request issued during that
\* period is suspended until the reconnect has completed, and only then
\* emitted.
C33_Claim ==
  [][\A a \in ConnAccounts, i \in InstanceIds :
       Emitted(a, i) => Up(i) /\ ~instances[i].isReconnecting]_vars

\* what the code does: a request is held back until the first connection of
\* the instance has been made (its connect() promise is fulfilled) and is
\* never emitted on an instance close() has marked; after that it is emitted
\* at once, whatever the state of the socket
C33_FirstConnectionLemma ==
  [][\A a \in ConnAccounts, i \in InstanceIds :
       Emitted(a, i) =>
         /\ instances[i].resolved = "resolved"
         /\ instances[i].connected
         /\ i \in socketInstances]_vars

\* the request of account a1 is pending on instance 0, emitted while the
\* socket was down: the socket is still not connected and the request has
\* neither been answered nor failed
C33_Witness ==
  /\ outcomes["a1"] = [state |-> "pending", instance |-> 0]
  /\ "a1" \in instances[0].requestResolves
  /\ ~Up(0)
  /\ instances[0].isReconnecting
  /\ instances[0].resolved = "resolved"

-----------------------------------------------------------------------------
(* Properties of the retry budget (checked under SpecRpc) *)

\* the time the transient branch sleeps from retry counter retryCounter on:
\* it sleeps RetryDelay(k) with the counter at k and then increments it, as
\* long as the counter is below the number of retries
RECURSIVE TransientSleepTotal(_)
TransientSleepTotal(retryCounter) ==
  IF retryCounter < Retries
  THEN RetryDelay(retryCounter) + TransientSleepTotal(retryCounter + 1)
  ELSE 0

\* call c waits or is sent again in this step
Retrying(c) == calls'[c].pc = "sleeping" \/ SentNow(c)

\* C34 (as claimed): the budget that decides whether a TooManyRequestsError
\* is waited for is the sum of the delays the transient branch sleeps over the
\* remaining retries: the request is retried exactly when the recommended
\* retry time lies within that sum.
C34_Claim ==
  [][\A c \in Retried :
       (/\ FailedNow(c)
        /\ calls'[c].err = "TooManyRequestsError"
        /\ calls[c].retryCounter < Retries
        /\ socketInstancesByAccounts[calls[c].acct] # NoInstance)
       => (Retrying(c)
             <=> calls'[c].retryIn < TransientSleepTotal(calls[c].retryCounter))]_vars

\* what holds instead: the request is retried exactly when the recommended
\* retry time lies within the sum of the delays the transient branch sleeps
\* with the counters one higher, retryCounter + 1 up to the number of retries;
\* that sum is never below the time the transient branch sleeps.
C34_ShiftedBudgetLemma ==
  [][\A c \in Retried :
       (/\ FailedNow(c)
        /\ calls'[c].err = "TooManyRequestsError"
        /\ calls[c].retryCounter < Retries
        /\ socketInstancesByAccounts[calls[c].acct] # NoInstance)
       => /\ Retrying(c)
               <=> calls'[c].retryIn
                     < TransientSleepTotal(calls[c].retryCounter)
                       - RetryDelay(calls[c].retryCounter) + RetryDelay(Retries)
          /\ CalcRequestTime(calls[c].retryCounter)
               >= TransientSleepTotal(calls[c].retryCounter)]_vars

\* C34 witness: a request waits for a recommended retry time that the sleeps
\* of the transient branch over the remaining retries would not cover
C34_Witness ==
  \E c \in Retried :
    /\ calls[c].pc = "sleeping"
    /\ calls[c].err = "TooManyRequestsError"
    /\ calls[c].retryCounter = 0
    /\ calls[c].wakeIn = calls[c].retryIn
    /\ calls[c].retryIn >= TransientSleepTotal(0)

-----------------------------------------------------------------------------
(* Properties of the synchronization flags (checked under SpecFlags) *)

\* the calls the claim expects a listener to receive for an
\* 'accountInformation' packet, given the flags the 'synchronizationStarted'
\* packet of its synchronization carried
ExpectedCalls(started) ==
  <<"onAccountInformationUpdated">>
    \o (IF started.positionsUpdated = "false" THEN <<"onPositionsSynchronized">> ELSE << >>)
    \o (IF started.ordersUpdated = "false" THEN <<"onPendingOrdersSynchronized">> ELSE << >>)

\* the handler of an 'accountInformation' packet returns in this step
InformationHandled == infoPacket # NoPacket /\ infoPacket' = NoPacket

\* listener l's call `call` returns in this step
Returns(l, call) == infoPacket # NoPacket /\ awaited[l] = call /\ awaited'[l] # call

\* listener l is called with `call` in this step, right after the call that
\* has returned
CalledNext(l, call) == delivered'[l] = Append(delivered[l], call) /\ awaited'[l] = call

\* C35 (as claimed): when an 'accountInformation' packet has been handled,
\* every listener has received onAccountInformationUpdated, followed by
\* onPositionsSynchronized exactly if the 'synchronizationStarted' packet of
\* that synchronization carried positionsUpdated = false, and by
\* onPendingOrdersSynchronized exactly if it carried ordersUpdated = false.
C35_Claim ==
  [][InformationHandled =>
       \A l \in flagListeners :
         delivered'[l] = ExpectedCalls(startedPackets[infoPacket])]_vars

\* C35 (amended): when a listener's onAccountInformationUpdated returns, the
\* listener is called with onPositionsSynchronized next exactly if the record
\* of the packet's synchronization id is still held and its
\* 'synchronizationStarted' packet carried positionsUpdated = false; it is
\* called with onPendingOrdersSynchronized, there or after
\* onPositionsSynchronized has returned, exactly if the record is still held
\* then and the packet carried ordersUpdated = false.  The record is dropped
\* by the first 'accountInformation' packet handled for the id and by a
\* reconnect.  No other step calls a listener with either.
C35_RecordedFlags ==
  [][/\ \A l \in flagListeners :
          LET held == synchronizationFlags[infoPacket].recorded
              started == startedPackets[infoPacket]
          IN /\ Returns(l, "onAccountInformationUpdated") =>
                  /\ CalledNext(l, "onPositionsSynchronized")
                       <=> held /\ started.positionsUpdated = "false"
                  /\ CalledNext(l, "onPendingOrdersSynchronized")
                       <=> /\ held
                           /\ started.positionsUpdated # "false"
                           /\ started.ordersUpdated = "false"
             /\ Returns(l, "onPositionsSynchronized") =>
                  /\ CalledNext(l, "onPendingOrdersSynchronized")
                       <=> held /\ started.ordersUpdated = "false"
     /\ \A l \in FlagListenerIds :
          \/ delivered'[l] = delivered[l]
          \/ Len(delivered'[l]) <= 1
          \/ Returns(l, "onAccountInformationUpdated")
          \/ Returns(l, "onPositionsSynchronized")
     /\ \A id \in FlagSyncIds :
          (synchronizationFlags[id].recorded /\ ~synchronizationFlags'[id].recorded)
            => \/ InformationHandled /\ infoPacket = id
               \/ infoPacket = NoPacket /\ infoPacket' = NoPacket /\ flagListeners = {}
               \/ /\ \A other \in FlagSyncIds : ~synchronizationFlags'[other].recorded
                  /\ delivered' = delivered]_vars

\* C35 witness: an 'accountInformation' packet of a synchronization started
\* with positionsUpdated = false and ordersUpdated = false is being handled:
\* one listener has received both notifications after
\* onAccountInformationUpdated, the other one is still in
\* onAccountInformationUpdated
C35_Witness ==
  /\ infoPacket = "s1"
  /\ startedPackets["s1"] = [positionsUpdated |-> "false", ordersUpdated |-> "false"]
  /\ synchronizationFlags["s1"].recorded
  /\ delivered["l1"] = <<"onAccountInformationUpdated", "onPositionsSynchronized",
                         "onPendingOrdersSynchronized">>
  /\ delivered["l2"] = <<"onAccountInformationUpdated">>
  /\ awaited["l2"] = "onAccountInformationUpdated"

-----------------------------------------------------------------------------
(* Properties of the end of a stream (checked under SpecStreams) *)

\* the handlers that have told the listeners that the stream of host h is
\* disconnected or closed and have not removed the stream yet: they await the
\* listeners, the stream is removed when they resume
ClosingHandlers(h) ==
  {x \in immediateHandlers : x.event.host = h /\ x.phase = "await"}
    \cup (IF /\ streamQueue # << >>
             /\ headPhase = "await"
             /\ Head(streamQueue).host = h
          THEN {[event |-> Head(streamQueue), phase |-> "await"]}
          ELSE {})

\* the listeners are told in this step that the stream of host h has ended
EndNotified(h) == <<"onDisconnected", h>> \in notes \/ <<"onStreamClosed", h>> \in notes

\* C36 (as claimed): between an accepted 'authenticated' packet of a stream
\* and the removal of the stream the listeners are told at most once that it
\* has ended: no second handler tells them while the first one has not
\* removed the stream.
C36_Claim == \A h \in Hosts : Cardinality(ClosingHandlers(h)) <= 1

\* what holds instead: the listeners are told by a handler that then awaits
\* them before it removes the stream, and of the handlers that went through
\* the account's queue at most one is in that state; a packet handled outside
\* the queue is not held back by it.
C36_QueuedLemma ==
  \A h \in Hosts :
    /\ EndNotified(h) => ClosingHandlers(h) # {}
    /\ Cardinality(ClosingHandlers(h) \ immediateHandlers) <= 1

\* C36 witness: the timeout event of a stream awaits the listeners it has
\* notified, and a 'disconnected' packet of the same stream that arrived
\* without a sequence number has notified them again
C36_Witness ==
  /\ streamQueue # << >>
  /\ Head(streamQueue).kind = "timeout"
  /\ Head(streamQueue).host = "h1"
  /\ headPhase = "await"
  /\ \E x \in immediateHandlers :
       x.event.kind = "disconnected" /\ x.event.host = "h1" /\ x.phase = "await"
  /\ EndNotified("h1")
  /\ "h1" \in connectedHosts

\* the silence timer of h fires in this step with nothing in the account's
\* queue: its event is handled in the same step
FiresAndRuns(h) == DisconnectTimerFires(h) /\ streamQueue = << >>

\* C37 (as claimed): for one silence timeout, subscriptionManager.onTimeout
\* has been called by the timer callback exactly if the listeners receive
\* onDisconnected when the queued event of that timeout is handled, whatever
\* happens to the other streams in between.
C37_Claim ==
  [][\A h \in Hosts :
       /\ \A alone \in BOOLEAN :
            BeganAtHead(TimeoutEvent(h, alone)) => (Noted("onDisconnected", h) <=> alone)
       /\ FiresAndRuns(h)
            => (Noted("subscriptionManager.onTimeout", "-") <=> Noted("onDisconnected", h))
    ]_vars

\* what holds instead: the two agree when the event is handled in the step
\* the timer fires in, for a stream that is listed as connected; then the
\* listeners receive onStreamClosed exactly if onTimeout was not called.
C37_SameStepLemma ==
  [][\A h \in Hosts :
       (FiresAndRuns(h) /\ h \in connectedHosts)
         => /\ Noted("subscriptionManager.onTimeout", "-") <=> Noted("onDisconnected", h)
            /\ Noted("subscriptionManager.onTimeout", "-") <=> ~Noted("onStreamClosed", h)
            /\ BeganAtHead(TimeoutEvent(h, connectedHosts = {h}))
    ]_vars

\* C37 witness: the timer of h1 fired while h1 was the only connected stream
\* and called onTimeout; h2 connected before the queued event was handled,
\* and the listeners are told that the stream of h1 is closed
C37_Witness ==
  /\ streamQueue # << >>
  /\ Head(streamQueue) = TimeoutEvent("h1", TRUE)
  /\ headPhase = "await"
  /\ <<"onStreamClosed", "h1">> \in notes
  /\ connectedHosts = {"h1", "h2"}

-----------------------------------------------------------------------------
(* Properties of the account's event queue (checked under SpecEventsFair) *)

\* the events that went through the queue and have been executed, in the
\* order of execution
ExecutedFromQueue ==
  IF sequentialEventProcessing
  THEN SelectSeq(invoked, LAMBDA e : e.kind = "timer" \/ e.sequenceNumber # NoSeq)
  ELSE << >>

\* the events of the queue that wait behind the one being executed
Waiting == IF eventQueues.events = << >> THEN << >> ELSE Tail(eventQueues.events)

\* the events put on the queue so far: those executed, then those waiting
EnqueueOrder == ExecutedFromQueue \o Waiting

IsPrefix(s, t) == Len(s) <= Len(t) /\ \A i \in DOMAIN s : s[i] = t[i]

\* the queue exists exactly while it holds events, and the event at its head
\* is the one executed last, whose handler has not returned
Draining ==
  IF eventQueues.exists
  THEN /\ eventQueues.events # << >>
       /\ ExecutedFromQueue # << >>
       /\ ExecutedFromQueue[Len(ExecutedFromQueue)] = Head(eventQueues.events)
       /\ \E a \in active : a.event = Head(eventQueues.events)
  ELSE eventQueues.events = << >>

-----------------------------------------------------------------------------
(* Properties of the end of a synchronization (checked under SpecThrottler) *)

\* a 'dealSynchronizationFinished' packet of synchronization id is processed
\* in this step, with n synchronization listeners registered for its account
DealsFinished(id, n) == DealSynchronizationFinished(id, n)

\* C39 (as claimed): the 'dealSynchronizationFinished' packet releases the
\* slot of its synchronization id as removeSynchronizationId does, whatever
\* the number of synchronization listeners of the account.
C39_Claim ==
  [][\A id \in SyncIds, n \in 0..2 :
       DealsFinished(id, n)
         => Throttler' = RemoveSynchronizationId(Throttler, id, otherSynchronizing)]_vars

\* what holds instead: with at least one listener the slot is released as by
\* removeSynchronizationId, once or several times with the same result;
\* with no listener the slot is only renewed and stays occupied until it
\* expires.
C39_PerListenerLemma ==
  [][\A id \in SyncIds, n \in 0..2 :
       DealsFinished(id, n)
         => Throttler' = IF n > 0
                         THEN RemoveSynchronizationId(Throttler, id, otherSynchronizing)
                         ELSE UpdateSynchronizationId(Throttler, id)]_vars

\* C39 witness: the 'dealSynchronizationFinished' packet of a synchronization
\* has been processed, its slot is still occupied, and another request waits
\* in the queue for a slot
C39_Witness ==
  /\ lastDeal \in DOMAIN synchronizationIds
  /\ synchronizationQueue # << >>
  /\ reclaimed = {}

-----------------------------------------------------------------------------
(* Properties of the dashboard server (checked under SpecDashboard) *)

\* the users of the server
KnownUsers == {"marco-sabelli", "alessio-gallina"}

\* client c's request GET /dashboard/:slug is taken up in this step
Requested(c, slug) == DashboardSlug(c, slug)

\* the request of client c for the dashboard of slug has passed both checks
\* and awaits MetaApi
Admitted(c, slug) == [client |-> c, slug |-> slug] \in inFlight

\* a response with account data is sent in this step
DataSent ==
  /\ lastExchange'.data # NoUser
  /\ lastExchange' # lastExchange \/ \E r \in inFlight : r \notin inFlight'

\* C40: the page with the account data of a slug is sent only in answer to
\* GET /dashboard/:slug, to a client whose request was admitted for that slug;
\* a request is admitted exactly if the session's user slug equals :slug, and
\* is otherwise answered with a redirect to /login or a 403, with no account
\* data; a session's user slug is set only by POST /login with the name of a
\* user and that user's password; after GET /logout the session has none.
C40_DashboardAccess ==
  /\ [][/\ DataSent =>
             /\ lastExchange'.route = "GET /dashboard/:slug"
             /\ lastExchange'.data = lastExchange'.slug
             /\ lastExchange'.data \in KnownUsers
             /\ Admitted(lastExchange'.client, lastExchange'.slug)
        /\ \A c \in Clients, slug \in Slugs :
             /\ Requested(c, slug) =>
                  IF sessionStore[c] = slug
                  THEN Admitted(c, slug)' /\ lastExchange' = lastExchange
                  ELSE /\ inFlight' = inFlight
                       /\ lastExchange'.client = c
                       /\ lastExchange'.slug = slug
                       /\ lastExchange'.data = NoUser
                       /\ \/ lastExchange'.status = "302" /\ lastExchange'.page = "/login"
                          \/ lastExchange'.status = "403"
             /\ Admitted(c, slug)' /\ ~Admitted(c, slug) => sessionStore[c] = slug
        /\ \A c \in Clients :
             /\ (sessionStore'[c] # sessionStore[c] /\ sessionStore'[c] # NoUser) =>
                  /\ lastExchange' = Exchange("POST /login", c, sessionStore'[c],
                                              USERS(sessionStore'[c]), "none", "302",
                                              "/dashboard", NoUser)
                  /\ sessionStore'[c] \in KnownUsers
             /\ Logout(c) => sessionStore'[c] = NoUser]_vars
  /\ [](\A c \in Clients : sessionStore[c] \in KnownUsers \cup {NoUser})

\* C40 witness: one client has received the dashboard of the user it is
\* logged in as; the other one, logged in as the other user, has a request
\* for its own dashboard in flight
C40_Witness ==
  /\ lastExchange.route = "GET /dashboard/:slug"
  /\ lastExchange.client = "c1"
  /\ lastExchange.data = "marco-sabelli"
  /\ sessionStore["c1"] = "marco-sabelli"
  /\ sessionStore["c2"] = "alessio-gallina"
  /\ inFlight = {[client |-> "c2", slug |-> "alessio-gallina"]}

====
